---- MODULE Spec2Model ----
(***************************************************************************)
(* Model of script.py: the archive-dump rehydration pipeline.              *)
(*                                                                         *)
(* Text (file names, URLs, attribute values, stylesheet and script         *)
(* content) is modelled as sequences of one-character strings, so that the *)
(* string functions of the program (urlparse, unquote, lower, splitext,    *)
(* basename, the regular expressions, the script scanner) are computed     *)
(* character by character as the program computes them.                    *)
(*                                                                         *)
(* Environment assumptions: a POSIX, case-sensitive file system; file      *)
(* operations succeed; SHA-256 is injective on the contents considered.    *)
(***************************************************************************)
EXTENDS Integers, Sequences, FiniteSets, TLC

(***************************************************************************)
(* Characters and generic string helpers                                   *)
(***************************************************************************)

\* Printable ASCII, code points 32..126, in code-point order.  The grave
\* accent (code point 96) cannot be written in a string of this language and
\* is spelled "BACKTICK".
Ascii ==
  <<" ","!","\"","#","$","%","&","'","(",")","*","+",",","-",".","/",
    "0","1","2","3","4","5","6","7","8","9",":",";","<","=",">","?","@",
    "A","B","C","D","E","F","G","H","I","J","K","L","M","N","O","P","Q",
    "R","S","T","U","V","W","X","Y","Z","[","\\","]","^","_","BACKTICK",
    "a","b","c","d","e","f","g","h","i","j","k","l","m","n","o","p","q",
    "r","s","t","u","v","w","x","y","z","{","|","}","~">>

Chars == {Ascii[k] : k \in 1..Len(Ascii)} \cup {"\t", "\n", "\r"}

\* ord(c): the code point of a character.
OrdTable ==
  [c \in Chars |->
     IF c = "\t" THEN 9 ELSE IF c = "\n" THEN 10 ELSE IF c = "\r" THEN 13
     ELSE 31 + (CHOOSE k \in 1..Len(Ascii) : Ascii[k] = c)]

Ord(c) == OrdTable[c]

Chr(n) == Ascii[n - 31]

\* str.lower() on one character.
LowerTable ==
  [c \in Chars |-> IF OrdTable[c] >= 65 /\ OrdTable[c] <= 90 THEN Ascii[OrdTable[c] + 1] ELSE c]

LowerChar(c) == LowerTable[c]

\* Operator application that evaluates its arguments once, before the body.
Strict1(F(_), a) == CHOOSE r \in {F(x) : x \in {a}} : TRUE
Strict2(F(_, _), a, b) == CHOOSE r \in {F(x, y) : x \in {a}, y \in {b}} : TRUE
Strict3(F(_, _, _), a, b, c) ==
  CHOOSE r \in {F(x, y, z) : x \in {a}, y \in {b}, z \in {c}} : TRUE

\* Bind(a, LAMBDA x : e) is e with x bound to the value of a.
Bind(a, F(_)) == Strict1(F, a)

\* str.lower()
Lower(s0) ==
  Strict1(LAMBDA s :
    [k \in 1..Len(s) |-> LowerChar(s[k])],
    s0)

MaxOf(S) == CHOOSE x \in S : \A y \in S : x >= y

\* The substring s[a..b] (1-based, inclusive); empty when a > b.
Sub(s, a, b) == IF a > b THEN <<>> ELSE SubSeq(s, a, b)

\* s[a:] of Python with a 1-based start.
From(s, a) == Sub(s, a, Len(s))

\* Whether sub occurs in s at the 1-based index p.
OccursAt(s, sub, p) == \A j \in 1..Len(sub) : s[p + j - 1] = sub[j]

\* str.find(sub, start): smallest 1-based index >= k where sub occurs, 0 when absent.
FindFrom(s0, sub0, k0) ==
  Strict3(LAMBDA s, sub, k :
    IF \E p \in k..(Len(s) - Len(sub) + 1) : OccursAt(s, sub, p)
      THEN CHOOSE p \in k..(Len(s) - Len(sub) + 1) :
             /\ OccursAt(s, sub, p)
             /\ \A q \in k..(p - 1) : ~OccursAt(s, sub, q)
      ELSE 0,
    s0, sub0, k0)

Find(s, sub) == FindFrom(s, sub, 1)

\* str.rfind(sub): largest 1-based index where sub occurs, 0 when absent.
RFind(s0, sub0) ==
  Strict2(LAMBDA s, sub :
    IF \E p \in 1..(Len(s) - Len(sub) + 1) : OccursAt(s, sub, p)
      THEN CHOOSE p \in 1..(Len(s) - Len(sub) + 1) :
             /\ OccursAt(s, sub, p)
             /\ \A q \in (p + 1)..(Len(s) - Len(sub) + 1) : ~OccursAt(s, sub, q)
      ELSE 0,
    s0, sub0)

\* sub in s
Contains(s, sub) == Find(s, sub) # 0

StartsWith(s0, p0) ==
  Strict2(LAMBDA s, p :
    Len(s) >= Len(p) /\ OccursAt(s, p, 1),
    s0, p0)
EndsWith(s0, p0) ==
  Strict2(LAMBDA s, p :
    Len(s) >= Len(p) /\ OccursAt(s, p, Len(s) - Len(p) + 1),
    s0, p0)

\* s.split(sep, 1)[0]
Before(s0, sep0) ==
  Strict2(LAMBDA s, sep :
    IF FindFrom(s, sep, 1) = 0 THEN s ELSE Sub(s, 1, FindFrom(s, sep, 1) - 1),
    s0, sep0)

\* s.split(sep, 1)[-1]
After(s0, sep0) ==
  Strict2(LAMBDA s, sep :
    IF FindFrom(s, sep, 1) = 0 THEN s ELSE From(s, FindFrom(s, sep, 1) + Len(sep)),
    s0, sep0)

\* Concatenation of a sequence of strings.
RECURSIVE Concat(_)
Concat(ss) == IF ss = <<>> THEN <<>> ELSE Head(ss) \o Concat(Tail(ss))

(***************************************************************************)
(* urllib.parse.urlparse                                                   *)
(***************************************************************************)

IsLetter(c) == LET o == Ord(LowerChar(c)) IN o >= 97 /\ o <= 122
IsDigit(c) == LET o == Ord(c) IN o >= 48 /\ o <= 57
IsSchemeChar(c) == IsLetter(c) \/ IsDigit(c) \/ c \in {"+", "-", "."}

\* First index >= k of a character of the set cs, Len(s)+1 when there is none.
FirstOf(s0, cs0, k0) ==
  Strict3(LAMBDA s, cs, k :
    IF \E p \in k..Len(s) : s[p] \in cs
      THEN CHOOSE p \in k..Len(s) : s[p] \in cs /\ \A q \in k..(p - 1) : s[q] \notin cs
      ELSE Len(s) + 1,
    s0, cs0, k0)

\* urlparse(url): scheme, netloc, path, params, query, fragment.  The
\* parts are cut out of url at these positions:
\*   c  end of the scheme (its colon), 0 without a scheme
\*   n  start of what follows the netloc
\*   h  the first "#" from n on, Len(url)+1 without one
\*   q  the first "?" from n on before h, h without one
\*   p  the first ";" of the last path segment before q, q without one
urlparse(url0) ==
  Bind(url0, LAMBDA url :
  Bind(IF /\ FindFrom(url, <<":">>, 1) > 1
          /\ IsLetter(url[1])
          /\ \A k \in 1..(FindFrom(url, <<":">>, 1) - 1) : IsSchemeChar(url[k])
       THEN FindFrom(url, <<":">>, 1) ELSE 0, LAMBDA c :
  Bind(Len(url) >= c + 2 /\ OccursAt(url, <<"/","/">>, c + 1), LAMBDA has_netloc :
  Bind(IF has_netloc THEN FirstOf(url, {"/", "?", "#"}, c + 3) ELSE c + 1, LAMBDA n :
  Bind(FirstOf(url, {"#"}, n), LAMBDA h :
  Bind(LET qm == FirstOf(url, {"?"}, n) IN IF qm < h THEN qm ELSE h, LAMBDA q :
  Bind(LET lastSlash == IF \E k \in n..(q - 1) : url[k] = "/"
                          THEN CHOOSE k \in n..(q - 1) :
                                 url[k] = "/" /\ \A j \in (k + 1)..(q - 1) : url[j] # "/"
                          ELSE n
           semi == FirstOf(url, {";"}, lastSlash)
       IN IF semi < q THEN semi ELSE q, LAMBDA p :
    [scheme |-> Lower(Sub(url, 1, c - 1)),
     netloc |-> IF has_netloc THEN Sub(url, c + 3, n - 1) ELSE <<>>,
     path |-> Sub(url, n, p - 1),
     params |-> Sub(url, p + 1, q - 1),
     query |-> Sub(url, q + 1, h - 1),
     fragment |-> From(url, h + 1)])))))))

(***************************************************************************)
(* strip_wayback                                                           *)
(***************************************************************************)

ArchiveHost == <<"w","e","b",".","a","r","c","h","i","v","e",".","o","r","g">>
WebSeg == <<"/","w","e","b","/">>
HttpPfx == <<"h","t","t","p",":","/","/">>
HttpsPfx == <<"h","t","t","p","s",":","/","/">>

\* strip_wayback(url)
strip_wayback(url0) ==
  Bind(url0, LAMBDA url :
    IF url = <<>> THEN url
    ELSE Bind(urlparse(url), LAMBDA parsed :
      IF Contains(Lower(parsed.netloc), ArchiveHost) /\ Contains(parsed.path, WebSeg)
        THEN Bind(After(parsed.path, WebSeg), LAMBDA tail :
               IF /\ Contains(tail, <<"/">>)
                  /\ \/ StartsWith(After(tail, <<"/">>), HttpPfx)
                     \/ StartsWith(After(tail, <<"/">>), HttpsPfx)
               THEN After(tail, <<"/">>)
                      \o (IF parsed.fragment # <<>> THEN <<"#">> \o parsed.fragment ELSE <<>>)
               ELSE url)
        ELSE url))

(***************************************************************************)
(* os.path / posixpath / urllib helpers                                    *)
(***************************************************************************)

\* s.split(sep) for a one-character separator.
RECURSIVE Split(_, _)
Split(s, sep) ==
  LET p == Find(s, <<sep>>)
  IN IF p = 0 THEN <<s>> ELSE <<Sub(s, 1, p - 1)>> \o Split(From(s, p + 1), sep)

\* sep.join(parts)
RECURSIVE Join(_, _)
Join(parts, sep) ==
  IF parts = <<>> THEN <<>>
  ELSE IF Len(parts) = 1 THEN parts[1]
  ELSE parts[1] \o <<sep>> \o Join(Tail(parts), sep)

\* s.replace(a, b) for single characters.
Replace(s0, a0, b0) ==
  Strict3(LAMBDA s, a, b :
    [k \in 1..Len(s) |-> IF s[k] = a THEN b ELSE s[k]],
    s0, a0, b0)

\* os.path.basename (posix): everything after the last slash.
basename(p) == From(p, RFind(p, <<"/">>) + 1)

\* os.path.dirname (posix) for paths without a run of slashes at the cut.
dirname(p) ==
  LET i == RFind(p, <<"/">>)
      head == Sub(p, 1, i)
  IN IF head # <<>> /\ \E k \in 1..Len(head) : head[k] # "/"
       THEN Sub(head, 1, MaxOf({k \in 1..Len(head) : head[k] # "/"}))
       ELSE head

\* os.path.splitext(p)[1]: the extension, from the last dot of the last
\* component, when a character other than a dot precedes it there.
splitext(p) ==
  LET sep == RFind(p, <<"/">>)
      dot == RFind(p, <<".">>)
  IN IF dot > sep /\ \E k \in (sep + 1)..(dot - 1) : p[k] # "."
       THEN From(p, dot) ELSE <<>>

IsHex(c) == IsDigit(c) \/ LowerChar(c) \in {"a", "b", "c", "d", "e", "f"}
HexVal(c) == IF IsDigit(c) THEN Ord(c) - 48 ELSE Ord(LowerChar(c)) - 87

\* urllib.parse.unquote, for escapes that decode to printable ASCII.
RECURSIVE unquote(_)
unquote(s) ==
  IF s = <<>> THEN <<>>
  ELSE IF /\ s[1] = "%" /\ Len(s) >= 3 /\ IsHex(s[2]) /\ IsHex(s[3])
          /\ 16 * HexVal(s[2]) + HexVal(s[3]) >= 32
          /\ 16 * HexVal(s[2]) + HexVal(s[3]) <= 126
       THEN <<Chr(16 * HexVal(s[2]) + HexVal(s[3]))>> \o unquote(From(s, 4))
       ELSE <<s[1]>> \o unquote(Tail(s))

\* The component stack of posixpath.normpath.
RECURSIVE NormComps(_, _, _)
NormComps(comps, acc, rooted) ==
  IF comps = <<>> THEN acc
  ELSE LET c == Head(comps)
           dd == <<".", ".">>
       IN IF c = <<>> \/ c = <<".">> THEN NormComps(Tail(comps), acc, rooted)
          ELSE IF c # dd \/ (~rooted /\ acc = <<>>) \/ (acc # <<>> /\ acc[Len(acc)] = dd)
            THEN NormComps(Tail(comps), Append(acc, c), rooted)
          ELSE IF acc # <<>>
            THEN NormComps(Tail(comps), Sub(acc, 1, Len(acc) - 1), rooted)
          ELSE NormComps(Tail(comps), acc, rooted)

\* posixpath.normpath / os.path.normpath (posix)
normpath(path) ==
  IF path = <<>> THEN <<".">>
  ELSE LET slashes == IF ~StartsWith(path, <<"/">>) THEN 0
                      ELSE IF StartsWith(path, <<"/","/">>) /\ ~StartsWith(path, <<"/","/","/">>)
                        THEN 2 ELSE 1
           body == Join(NormComps(Split(path, "/"), <<>>, slashes > 0), "/")
           res == [k \in 1..slashes |-> "/"] \o body
       IN IF res = <<>> THEN <<".">> ELSE res

norm_slashes(path) == Replace(normpath(path), "\\", "/")

\* url_basename: the last path component of a reference, without query and fragment.
url_basename(url) ==
  basename(norm_slashes(Before(Before(strip_wayback(url), <<"#">>), <<"?">>)))

\* Python's string order (code points, then length).
RECURSIVE StrLess(_, _)
StrLess(a, b) ==
  IF b = <<>> THEN FALSE
  ELSE IF a = <<>> THEN TRUE
  ELSE IF a[1] # b[1] THEN Ord(a[1]) < Ord(b[1])
  ELSE StrLess(Tail(a), Tail(b))

\* sorted(S) for a set of strings.
RECURSIVE Sorted(_)
Sorted(S) ==
  IF S = {} THEN <<>>
  ELSE LET m == CHOOSE x \in S : \A y \in S \ {x} : StrLess(x, y)
       IN <<m>> \o Sorted(S \ {m})

\* m[k] = v on a dict.
Put(m, k, v) == [x \in (DOMAIN m) \cup {k} |-> IF x = k THEN v ELSE m[x]]

EmptyMap == [x \in {} |-> <<>>]

(***************************************************************************)
(* State                                                                   *)
(***************************************************************************)

VARIABLES
  \* --- the site tree and the Resource Table ---
  fs,          \* the files under site/: <<directory, name>> |-> content
  maps,        \* img_map, css_map, js_map, font_map: key |-> canonical path
  pc,          \* the stage of the run
  todo,        \* the asset move walk: directories os.walk has not yielded yet
  root,        \* the directory being walked, None between directories
  files,       \* file names of root not handled yet
  dd_class,    \* dedupe_folder: the class being deduplicated (1..4)
  dd_names,    \* dedupe_folder: the rest of sorted(os.listdir(folder_abs))
  seen,        \* dedupe_folder: digest |-> first file name with that digest
  run,         \* how many times the consolidator has been started
  donor,       \* the tree before the first walk
  after_walk,  \* the tree when the walk of this run ended
  registered,  \* the <<class, file name, key>> triples map_put has stored
  first_run,   \* the tree and the Resource Table at the end of the first run
  \* --- archive-wrapper stripping ---
  wb_url,      \* an absolute URL
  wb_ts,       \* a capture timestamp
  wb_out,      \* strip_wayback of the wrapped URL, None before the call
  \* --- link rewriting: one reference of one file of the site ---
  domain_full, \* the domain the user typed
  file_map,    \* build_file_map: lower-cased relative path |-> relative path
  kind,        \* where the reference stands: an attribute or a CSS directive
  file_path,   \* the file that holds the reference
  ref,         \* the reference as the donor wrote it
  val0,        \* the text that carries it (attribute value or CSS directive)
  val_in,      \* the attribute value when walk_and_fix starts
  val,         \* the text now
  present,     \* whether the element or directive is still in the file
  rw_pc,       \* the rewriting pass that runs next
  \* --- minification of one file ---
  mn_type,     \* filetype argument of minify_code
  mn_toks,     \* the lexical pieces the file's text is made of
  mn_in,       \* the file's text
  js_state,    \* the scanner's state
  js_i,        \* the scanner's index i (0-based)
  js_escaped,  \* the scanner's escaped flag
  js_prev,     \* the scanner's prev_non_ws, None at the start
  js_out,      \* the scanner's out, joined
  mn_text,     \* content after comment stripping
  mn_out,      \* what minify_code returned
  mn_pc,       \* the step of minify_code that runs next
  \* --- the run as a whole ---
  stage,       \* the stage of the run the program is in
  \* --- run_minification ---
  mr_tree,     \* the files of the site: path -> text
  mr_before,   \* mr_tree when run_minification was called
  mr_left,     \* the files os.walk has not yet yielded
  mr_faults,   \* visited file -> what raised while it was handled
  mr_warned,   \* the files log_warn was called for
  \* --- resolve_local_target on one path ---
  rs_path,     \* the cleaned path rewrite_attr resolves
  rs_map,      \* the File Index
  rs_pc,       \* the statement of resolve_local_target that runs next
  rs_cut,      \* the loop variable cut
  rs_tried,    \* the paths handed to try_variants_in_map, in order
  rs_hits,     \* what try_variants_in_map returned for each
  rs_hit,      \* what resolve_local_target returned
  rs_out,      \* the attribute value rewrite_attr leaves
  \* --- one call of a text function ---
  tx_fn,       \* the function called
  tx_from,     \* the file the text stands in
  tx_in,       \* the text handed to it
  tx_map,      \* the table it looks names up in
  tx_out,      \* what it returned or left in place, None before the call
  tx_again,    \* what a second call on tx_out returned, None before it
  tx_pc        \* "call" before the call, "done" after it

varsAssets == <<fs, maps, pc, todo, root, files, dd_class, dd_names, seen,
                run, donor, after_walk, registered, first_run>>
varsWayback == <<wb_url, wb_ts, wb_out>>
varsRewrite == <<domain_full, file_map, kind, file_path, ref, val0, val_in, val,
                 present, rw_pc>>
varsMinify == <<mn_type, mn_toks, mn_in, js_state, js_i, js_escaped, js_prev,
                js_out, mn_text, mn_out, mn_pc>>
varsRun == <<stage>>
varsMinRun == <<mr_tree, mr_before, mr_left, mr_faults, mr_warned>>
varsResolve == <<rs_path, rs_map, rs_pc, rs_cut, rs_tried, rs_hits, rs_hit, rs_out>>
varsText == <<tx_fn, tx_from, tx_in, tx_map, tx_out, tx_again, tx_pc>>
vars == <<varsAssets, varsWayback, varsRewrite, varsMinify, varsRun, varsMinRun, varsResolve, varsText>>
varsNotAssets == <<varsWayback, varsRewrite, varsMinify, varsRun, varsMinRun, varsResolve, varsText>>
varsNotWayback == <<varsAssets, varsRewrite, varsMinify, varsRun, varsMinRun, varsResolve, varsText>>
varsNotRewrite == <<varsWayback, varsMinify, varsRun, varsMinRun, varsResolve, varsText,
                    pc, todo, root, files, dd_class,
                    dd_names, seen, run, donor, after_walk, registered, first_run>>
varsNotMinify == <<varsAssets, varsWayback, varsRewrite, varsRun, varsMinRun, varsResolve, varsText>>
varsNotMinRun == <<varsAssets, varsWayback, varsRewrite, varsMinify, varsRun, varsResolve, varsText>>
varsNotResolve == <<varsAssets, varsWayback, varsRewrite, varsMinify, varsRun, varsMinRun, varsText>>
varsNotText == <<varsAssets, varsWayback, varsRewrite, varsMinify, varsRun, varsMinRun, varsResolve>>

None == <<"None">>

(***************************************************************************)
(* Asset classes                                                           *)
(***************************************************************************)

ImgExts ==
  { <<".","p","n","g">>, <<".","j","p","g">>, <<".","j","p","e","g">>,
    <<".","g","i","f">>, <<".","w","e","b","p">>, <<".","s","v","g">>,
    <<".","b","m","p">>, <<".","i","c","o">>, <<".","a","v","i","f">> }
FontExts ==
  { <<".","w","o","f","f">>, <<".","w","o","f","f","2">>, <<".","t","t","f">>,
    <<".","o","t","f">>, <<".","e","o","t">> }

is_img(name) == Lower(splitext(name)) \in ImgExts
is_css(name) == EndsWith(Lower(name), <<".","c","s","s">>)
is_js(name) == EndsWith(Lower(name), <<".","j","s">>)
is_font(name) == Lower(splitext(name)) \in FontExts

AssetsDir == <<"a","s","s","e","t","s">>

\* The four classes in the order the program handles them: the map of each
\* and its canonical directory.
Classes ==
  << [map |-> "img_map",  dir |-> <<"a","s","s","e","t","s","/","i","m","a","g","e","s">>],
     [map |-> "css_map",  dir |-> <<"a","s","s","e","t","s","/","c","s","s">>],
     [map |-> "js_map",   dir |-> <<"a","s","s","e","t","s","/","j","s">>],
     [map |-> "font_map", dir |-> <<"a","s","s","e","t","s","/","f","o","n","t","s">>] >>

\* The branch of the walk's if/elif chain a file name takes, 0 for none.
ClassOf(fname) ==
  IF is_img(fname) THEN 1
  ELSE IF is_css(fname) THEN 2
  ELSE IF is_js(fname) THEN 3
  ELSE IF is_font(fname) THEN 4
  ELSE 0

\* os.path.join(dir, name)
PathJoin(dir, name) == IF dir = <<>> THEN name ELSE dir \o <<"/">> \o name

\* file_sha256: the digest of a content; distinct contents have distinct digests.
file_sha256(data) == <<"sha256", data>>

\* os.listdir restricted to files: the names of the files directly in dir.
ListDir(tree, dir) == {f[2] : f \in {g \in DOMAIN tree : g[1] = dir}}

\* The keys map_put stores for a file name.
map_put_keys(fname) ==
  LET clean_name == unquote(Before(Before(fname, <<"?">>), <<"#">>))
      clean_low == Lower(clean_name)
      ver == <<"@","v","e","r","=">>
  IN IF Contains(clean_low, ver)
       THEN <<clean_low, Before(clean_low, ver) \o splitext(clean_low)>>
       ELSE <<clean_low>>

\* map_put(m, fname, path)
map_put(m, fname, path) ==
  LET ks == map_put_keys(fname)
      m1 == Put(m, ks[1], path)
  IN IF Len(ks) = 2 THEN Put(m1, ks[2], path) ELSE m1

\* A tree without the file p.
Remove(tree, p) == [q \in (DOMAIN tree) \ {p} |-> tree[q]]

\* shutil.move(src, dst) onto a file path: the content of src is at dst
\* afterwards, whatever was at dst before.
Move(tree, src, dst) == Put(Remove(tree, src), dst, tree[src])

(***************************************************************************)
(* The donor trees considered                                              *)
(***************************************************************************)

MaxFiles == 3
Data == {1, 2}

Names ==
  { <<"s","t","y","l","e","s",".","c","s","s">>,
    <<"s","t","y","l","e","s"," ","(","1",")",".","c","s","s">>,
    <<"t","%","2","0",".","c","s","s">>,
    <<"s","t","y","l","e","s","@","v","e","r","=","1",".","c","s","s">>,
    <<"i",".","p","n","g">>,
    <<"a",".","j","s">>,
    <<"f",".","w","o","f","f">>,
    <<"p",".","h","t","m","l">> }

OldDir == <<"o","l","d">>

\* The places a donor file may be at: any name in the root, and in old/ the
\* names that make a second file of the same name.
DonorPaths ==
  {<<<<>>, n>> : n \in Names} \cup
  {<<OldDir, n>> : n \in { <<"s","t","y","l","e","s",".","c","s","s">>,
                           <<"s","t","y","l","e","s","@","v","e","r","=","1",".","c","s","s">>,
                           <<"i",".","p","n","g">> }}

\* Every directory of the tree: the directories of its files, their
\* ancestors, and the asset directories the program creates before the walk.
RECURSIVE Ancestors(_)
Ancestors(d) == IF d = <<>> THEN {<<>>} ELSE {d} \cup Ancestors(dirname(d))

DirsOf(tree) ==
  UNION ({Ancestors(f[1]) : f \in DOMAIN tree}
         \cup {Ancestors(Classes[c].dir) : c \in 1..4})

NoRun == [fs |-> EmptyMap, maps |-> EmptyMap]

EmptyMaps == [img_map |-> EmptyMap, css_map |-> EmptyMap,
              js_map |-> EmptyMap, font_map |-> EmptyMap]

(***************************************************************************)
(* The asset move walk (script.py 277-342)                                 *)
(***************************************************************************)

\* The state when the walk starts on a tree: the maps are empty.
StartWalk(tree) ==
  /\ fs' = tree
  /\ maps' = EmptyMaps
  /\ pc' = "walk"
  /\ todo' = DirsOf(tree)
  /\ root' = None
  /\ files' = {}
  /\ dd_class' = 0
  /\ dd_names' = <<>>
  /\ seen' = EmptyMap
  /\ after_walk' = EmptyMap
  /\ registered' = {}

\* os.walk is top-down: a directory is yielded after its parent.
CanYield(d) == d \in todo /\ (d = <<>> \/ dirname(d) \notin todo)

\* assets/ is yielded and skipped (`continue`), and so is, in its turn, every
\* directory below it.
WalkSkipAssets ==
  /\ pc = "walk" /\ root = None
  /\ \E d \in todo :
       /\ CanYield(d)
       /\ StartsWith(d, AssetsDir)
       /\ todo' = {e \in todo : ~StartsWith(e, d)}
  /\ UNCHANGED <<fs, maps, pc, root, files, dd_class, dd_names, seen, run,
                 donor, after_walk, registered, first_run>>
  /\ UNCHANGED varsNotAssets

\* Any other directory is yielded with the list of its files.
WalkEnter ==
  /\ pc = "walk" /\ root = None
  /\ \E d \in todo :
       /\ CanYield(d)
       /\ ~StartsWith(d, AssetsDir)
       /\ todo' = todo \ {d}
       /\ files' = ListDir(fs, d)
       /\ root' = IF ListDir(fs, d) = {} THEN None ELSE d
  /\ UNCHANGED <<fs, maps, pc, dd_class, dd_names, seen, run,
                 donor, after_walk, registered, first_run>>
  /\ UNCHANGED varsNotAssets

\* One iteration of `for fname in files` for a file of an asset class: the
\* file is moved into the class directory and registered with map_put.
WalkMoveAsset ==
  /\ pc = "walk" /\ root # None
  /\ \E fname \in files :
       LET c == ClassOf(fname)
           src == <<root, fname>>
           dst == <<Classes[c].dir, fname>>
           m == Classes[c].map
       IN /\ c # 0
          /\ fs' = IF src # dst THEN Move(fs, src, dst) ELSE fs
          /\ maps' = [maps EXCEPT ![m] = map_put(maps[m], fname, PathJoin(Classes[c].dir, fname))]
          /\ registered' = registered \cup
               {<<c, fname, map_put_keys(fname)[k]>> : k \in 1..Len(map_put_keys(fname))}
          /\ files' = files \ {fname}
          /\ root' = IF files = {fname} THEN None ELSE root
  /\ UNCHANGED <<pc, todo, dd_class, dd_names, seen, run, donor, after_walk, first_run>>
  /\ UNCHANGED varsNotAssets

\* One iteration for a file of no asset class: nothing happens.
WalkOtherFile ==
  /\ pc = "walk" /\ root # None
  /\ \E fname \in files :
       /\ ClassOf(fname) = 0
       /\ files' = files \ {fname}
       /\ root' = IF files = {fname} THEN None ELSE root
  /\ UNCHANGED <<fs, maps, pc, todo, dd_class, dd_names, seen, run,
                 donor, after_walk, registered, first_run>>
  /\ UNCHANGED varsNotAssets

(***************************************************************************)
(* dedupe_folder (script.py 349-378)                                       *)
(***************************************************************************)

\* The walk has ended; dedupe_folder is called for the first class.
DedupeStart ==
  /\ pc = "walk" /\ root = None /\ todo = {}
  /\ pc' = "dedupe"
  /\ dd_class' = 1
  /\ dd_names' = Sorted(ListDir(fs, Classes[1].dir))
  /\ seen' = EmptyMap
  /\ after_walk' = fs
  /\ UNCHANGED <<fs, maps, todo, root, files, run, donor, registered, first_run>>
  /\ UNCHANGED varsNotAssets

\* One iteration for a file whose digest has not been seen: it becomes canonical.
DedupeKeep ==
  /\ pc = "dedupe" /\ dd_names # <<>>
  /\ LET fname == Head(dd_names)
         h == file_sha256(fs[<<Classes[dd_class].dir, fname>>])
     IN /\ h \notin DOMAIN seen
        /\ seen' = Put(seen, h, fname)
  /\ dd_names' = Tail(dd_names)
  /\ UNCHANGED <<fs, maps, pc, todo, root, files, dd_class, run,
                 donor, after_walk, registered, first_run>>
  /\ UNCHANGED varsNotAssets

\* mapping[fname.lower()] = norm_slashes(os.path.join(rel_prefix, canon))
dedupe_alias(mapping, rel_prefix, fname, canon) ==
  Put(mapping, Lower(fname), norm_slashes(PathJoin(rel_prefix, canon)))

\* One iteration for a file whose digest has been seen: the file is removed
\* and its lower-cased name is mapped to the canonical file.
DedupeRemove ==
  /\ pc = "dedupe" /\ dd_names # <<>>
  /\ LET fname == Head(dd_names)
         dir == Classes[dd_class].dir
         m == Classes[dd_class].map
         h == file_sha256(fs[<<dir, fname>>])
     IN /\ h \in DOMAIN seen
        /\ fs' = Remove(fs, <<dir, fname>>)
        /\ maps' = [maps EXCEPT ![m] = dedupe_alias(maps[m], dir, fname, seen[h])]
  /\ dd_names' = Tail(dd_names)
  /\ UNCHANGED <<pc, todo, root, files, dd_class, seen, run,
                 donor, after_walk, registered, first_run>>
  /\ UNCHANGED varsNotAssets

\* dedupe_folder returns; it is called for the next class.
DedupeNextClass ==
  /\ pc = "dedupe" /\ dd_names = <<>> /\ dd_class < 4
  /\ dd_class' = dd_class + 1
  /\ dd_names' = Sorted(ListDir(fs, Classes[dd_class + 1].dir))
  /\ seen' = EmptyMap
  /\ UNCHANGED <<fs, maps, pc, todo, root, files, run,
                 donor, after_walk, registered, first_run>>
  /\ UNCHANGED varsNotAssets

\* The fourth dedupe_folder returns: the consolidation is complete.
DedupeDone ==
  /\ pc = "dedupe" /\ dd_names = <<>> /\ dd_class = 4
  /\ pc' = "consolidated"
  /\ first_run' = IF run = 1 THEN [fs |-> fs, maps |-> maps] ELSE first_run
  /\ UNCHANGED <<fs, maps, todo, root, files, dd_class, dd_names, seen, run,
                 donor, after_walk, registered>>
  /\ UNCHANGED varsNotAssets

\* The consolidator is run again on the tree it produced.
Rerun ==
  /\ pc = "consolidated" /\ run = 1
  /\ run' = 2
  /\ StartWalk(fs)
  /\ UNCHANGED <<donor, first_run>>
  /\ UNCHANGED varsNotAssets

WaybackIdle == wb_url = <<>> /\ wb_ts = <<>> /\ wb_out = None

RewriteIdle ==
  /\ domain_full = <<>> /\ file_map = EmptyMap /\ kind = "none"
  /\ file_path = <<>> /\ ref = <<>> /\ val0 = <<>> /\ val_in = <<>> /\ val = <<>>
  /\ present = FALSE /\ rw_pc = "idle"

MinifyIdle ==
  /\ mn_type = "none" /\ mn_toks = <<>> /\ mn_in = <<>>
  /\ js_state = "OUT" /\ js_i = 0 /\ js_escaped = FALSE /\ js_prev = None
  /\ js_out = <<>> /\ mn_text = <<>> /\ mn_out = None /\ mn_pc = "idle"

RunIdle == stage = "none"

MinRunIdle ==
  /\ mr_tree = EmptyMap /\ mr_before = EmptyMap /\ mr_left = {}
  /\ mr_faults = EmptyMap /\ mr_warned = {}

ResolveIdle ==
  /\ rs_path = <<>> /\ rs_map = EmptyMap /\ rs_pc = "idle" /\ rs_cut = 0
  /\ rs_tried = <<>> /\ rs_hits = <<>> /\ rs_hit = None /\ rs_out = None

TextIdle ==
  /\ tx_fn = "none" /\ tx_from = <<>> /\ tx_in = <<>> /\ tx_map = EmptyMap
  /\ tx_out = None /\ tx_again = None /\ tx_pc = "idle"

InitAssets ==
  /\ \E S \in SUBSET DonorPaths :
       /\ Cardinality(S) <= MaxFiles
       /\ fs \in [S -> Data]
  /\ donor = fs
  /\ maps = EmptyMaps
  /\ pc = "walk"
  /\ todo = DirsOf(fs)
  /\ root = None
  /\ files = {}
  /\ dd_class = 0
  /\ dd_names = <<>>
  /\ seen = EmptyMap
  /\ run = 1
  /\ after_walk = EmptyMap
  /\ registered = {}
  /\ first_run = NoRun
  /\ WaybackIdle /\ RewriteIdle /\ MinifyIdle /\ RunIdle /\ MinRunIdle /\ ResolveIdle /\ TextIdle

NextAssets ==
  \/ WalkSkipAssets
  \/ WalkEnter
  \/ WalkMoveAsset
  \/ WalkOtherFile
  \/ DedupeStart
  \/ DedupeKeep
  \/ DedupeRemove
  \/ DedupeNextClass
  \/ DedupeDone
  \/ Rerun

SpecAssets == InitAssets /\ [][NextAssets]_vars

\* C1: for any N > 1 files of one class directory that share a digest when
\* the walk has ended, exactly one remains after dedupe_folder, and every key
\* map_put stored for any of the N files maps to the path of that survivor.
C1_SingleSurvivorKeysResolve ==
  pc = "consolidated" =>
    \A c \in 1..4 : \A d \in Data :
      LET dir == Classes[c].dir
          m == maps[Classes[c].map]
          G == {n \in ListDir(after_walk, dir) : after_walk[<<dir, n>>] = d}
          left == {n \in G : <<dir, n>> \in DOMAIN fs}
      IN Cardinality(G) > 1 =>
           /\ Cardinality(left) = 1
           /\ \A reg \in registered :
                (reg[1] = c /\ reg[2] \in G) =>
                  /\ reg[3] \in DOMAIN m
                  /\ \A n \in left : m[reg[3]] = PathJoin(dir, n)

\* C2: two eligible donor files of one class with the same name, in different
\* directories and with different digests, both have their content in the
\* class directory after consolidation.
C2_SameNameBothKept ==
  (pc = "consolidated" /\ run = 1) =>
    \A f \in DOMAIN donor : \A g \in DOMAIN donor :
      (f[2] = g[2] /\ f[1] # g[1] /\ ClassOf(f[2]) # 0 /\ donor[f] # donor[g]) =>
        LET dir == Classes[ClassOf(f[2])].dir
            kept == {fs[<<dir, n>>] : n \in ListDir(fs, dir)}
        IN donor[f] \in kept /\ donor[g] \in kept

\* C3: a second run of the consolidator on the tree the first run produced
\* leaves the set of files unchanged and produces the same Resource Table.
C3_SecondRunFixedPoint ==
  (pc = "consolidated" /\ run = 2) =>
    /\ fs = first_run.fs
    /\ maps = first_run.maps

(***************************************************************************)
(* Archive-wrapper stripping (script.py 57-67)                             *)
(***************************************************************************)

WaybackPrefix ==
  <<"h","t","t","p","s",":","/","/","w","e","b",".","a","r","c","h","i","v","e",
    ".","o","r","g","/","w","e","b","/">>

\* The archive's form of a captured URL.
wrap(url, timestamp) == WaybackPrefix \o timestamp \o <<"/">> \o url

\* Well-formed absolute URLs: scheme, host, path, optional query and fragment.
UrlSchemes == {HttpPfx, HttpsPfx}
UrlHosts == { <<"a",".","c","o","m">>, <<"b",".","o","r","g">> }
UrlPaths == { <<>>, <<"/","p">>, <<"/","w","e","b","/","x",".","c","s","s">> }
UrlQueries == { <<>>, <<"?","q","=","1">> }
UrlFragments == { <<>>, <<"#","f">> }
Timestamps ==
  { <<"2","0","2","0">>, <<"2","0","2","0","0","1","0","1","0","0","0","0","0","0">>,
    <<"2","0","2","0","i","m","_">> }

AbsoluteUrls ==
  {s \o h \o p \o q \o f :
     s \in UrlSchemes, h \in UrlHosts, p \in UrlPaths, q \in UrlQueries, f \in UrlFragments}

AssetsIdle ==
  /\ fs = EmptyMap /\ donor = EmptyMap /\ maps = EmptyMaps
  /\ pc = "idle" /\ todo = {} /\ root = None /\ files = {}
  /\ dd_class = 0 /\ dd_names = <<>> /\ seen = EmptyMap
  /\ run = 0 /\ after_walk = EmptyMap /\ registered = {} /\ first_run = NoRun

InitWayback ==
  /\ wb_url \in AbsoluteUrls
  /\ wb_ts \in Timestamps
  /\ wb_out = None
  /\ AssetsIdle /\ RewriteIdle /\ MinifyIdle /\ RunIdle /\ MinRunIdle /\ ResolveIdle /\ TextIdle

\* strip_wayback is called on the wrapped URL.
StripWayback ==
  /\ wb_out = None /\ wb_url # <<>>
  /\ wb_out' = strip_wayback(wrap(wb_url, wb_ts))
  /\ UNCHANGED <<wb_url, wb_ts>>
  /\ UNCHANGED varsNotWayback

NextWayback == StripWayback

SpecWayback == InitWayback /\ [][NextWayback]_vars

\* C4: strip_wayback of the wrapped form of a well-formed absolute URL,
\* query string and fragment included, is that URL.
C4_StripWrapRoundTrip ==
  wb_out # None => wb_out = wb_url

(***************************************************************************)
(* Link rewriting: helpers (script.py 180-192, 597-691, 759-772, 921-937)  *)
(***************************************************************************)

SiteDir == <<"s","i","t","e">>

\* The directory the program is started in; site/ is directly below it.
Cwd == <<"/","w">>

NonEmpty(x) == x # <<>>

\* s.lstrip(c) for one character c.
LStrip(s0, c0) ==
  Strict2(LAMBDA s, c :
    IF \E k \in 1..Len(s) : s[k] # c
      THEN From(s, CHOOSE k \in 1..Len(s) : s[k] # c /\ \A j \in 1..(k - 1) : s[j] = c)
      ELSE <<>>,
    s0, c0)

\* s.strip(chars): the characters of cs removed at both ends.
StripChars(s0, cs0) ==
  Strict2(LAMBDA s, cs :
    IF \E k \in 1..Len(s) : s[k] \notin cs
      THEN Sub(s, CHOOSE k \in 1..Len(s) : s[k] \notin cs /\ \A j \in 1..(k - 1) : s[j] \in cs,
                  CHOOSE k \in 1..Len(s) : s[k] \notin cs /\ \A j \in (k + 1)..Len(s) : s[j] \in cs)
      ELSE <<>>,
    s0, cs0)

\* s.lstrip(chars) and s.rstrip(chars)
LStripSet(s, cs) ==
  IF \E k \in 1..Len(s) : s[k] \notin cs
    THEN From(s, CHOOSE k \in 1..Len(s) : s[k] \notin cs /\ \A j \in 1..(k - 1) : s[j] \in cs)
    ELSE <<>>
RStripSet(s, cs) ==
  IF \E k \in 1..Len(s) : s[k] \notin cs
    THEN Sub(s, 1, MaxOf({k \in 1..Len(s) : s[k] \notin cs}))
    ELSE <<>>

WhiteSpace == {" ", "\t", "\n", "\r"}
Quotes == {"\"", "'"}

\* os.path.join(a, b)
os_path_join(a0, b0) ==
  Strict2(LAMBDA a, b :
    IF b # <<>> /\ b[1] = "/" THEN b
    ELSE IF a = <<>> \/ a[Len(a)] = "/" THEN a \o b
    ELSE a \o <<"/">> \o b,
    a0, b0)

\* os.path.abspath(p), as the list of its components.
AbsComps(p) == SelectSeq(Split(normpath(os_path_join(Cwd, p)), "/"), NonEmpty)

\* len(os.path.commonprefix([a, b])) on component lists.
CommonLen(a, b) ==
  LET n == IF Len(a) < Len(b) THEN Len(a) ELSE Len(b)
  IN IF \E k \in 1..n : a[k] # b[k]
       THEN (CHOOSE k \in 1..n : a[k] # b[k] /\ \A j \in 1..(k - 1) : a[j] = b[j]) - 1
       ELSE n

\* os.path.relpath(path, start) (posix)
relpath(path, start) ==
  Bind(AbsComps(path), LAMBDA path_list :
  Bind(AbsComps(start), LAMBDA start_list :
  Bind(CommonLen(path_list, start_list), LAMBDA i :
    LET rel_list == [k \in 1..(Len(start_list) - i) |-> <<".", ".">>]
                      \o Sub(path_list, i + 1, Len(path_list))
    IN IF rel_list = <<>> THEN <<".">> ELSE Join(rel_list, "/"))))

\* clean_domain(user_input): the base host.
clean_domain(user_input) ==
  Bind(user_input, LAMBDA raw :
  Bind(Lower(urlparse(IF StartsWith(raw, HttpPfx) \/ StartsWith(raw, HttpsPfx)
                        THEN raw ELSE HttpPfx \o raw).netloc), LAMBDA d :
    IF StartsWith(d, <<"w","w","w",".">>) THEN From(d, 5) ELSE d))

\* RESOURCE_EXTS, as bound when walk_and_fix runs (script.py 761).
RESOURCE_EXTS ==
  { <<".","c","s","s">>, <<".","j","s">>, <<".","p","n","g">>, <<".","j","p","g">>, <<".","j","p","e","g">>, <<".","g","i","f">>, <<".","s","v","g">>, <<".","w","e","b","p">>, <<".","i","c","o">>,
    <<".","b","m","p">>, <<".","t","t","f">>, <<".","w","o","f","f">>, <<".","w","o","f","f","2">>, <<".","e","o","t">>, <<".","m","p","4">>, <<".","w","e","b","m">> }

\* The image branch of process_resources_in_html.
ResourceImgExts ==
  { <<".","p","n","g">>, <<".","j","p","g">>, <<".","j","p","e","g">>, <<".","g","i","f">>, <<".","s","v","g">>, <<".","w","e","b","p">>, <<".","i","c","o">>, <<".","b","m","p">> }

\* is_resource_path that takes no path for a resource.
is_resource_path_never(path_no_qf) == FALSE

\* is_resource_path(path_no_qf)
is_resource_path(path_no_qf) == splitext(Lower(path_no_qf)) \in RESOURCE_EXTS

\* urllib.parse.urlunparse((scheme, netloc, path, "", "", ""))
UsesNetloc == { <<"h","t","t","p">>, <<"h","t","t","p","s">>, <<"f","t","p">>, <<"f","i","l","e">>, <<"w","s">>, <<"w","s","s">> }
urlunparse_base(p) ==
  LET url == IF p.netloc # <<>>
                  \/ (p.scheme # <<>> /\ p.scheme \in UsesNetloc /\ ~StartsWith(p.path, <<"/","/">>))
               THEN <<"/","/">> \o p.netloc
                      \o (IF p.path # <<>> /\ p.path[1] # "/" THEN <<"/">> ELSE <<>>) \o p.path
               ELSE p.path
  IN IF p.scheme # <<>> THEN p.scheme \o <<":">> \o url ELSE url

\* split_qf(url): base, query, fragment
split_qf(url) ==
  Bind(urlparse(url), LAMBDA p :
    [base |-> urlunparse_base(p), query |-> p.query, fragment |-> p.fragment])

\* clean_root_path(p)
clean_root_path(p) ==
  Bind(normpath(LStrip(p, "/")), LAMBDA norm : IF norm = <<".">> THEN <<>> ELSE norm)

\* s.rstrip("/")
RStripSlash(s) ==
  IF \E k \in 1..Len(s) : s[k] # "/"
    THEN Sub(s, 1, MaxOf({k \in 1..Len(s) : s[k] # "/"}))
    ELSE <<>>

\* try_variants_in_map with the .html candidate tried before /index.html.
try_variants_html_first(rel_path0, file_map0) ==
  Strict2(LAMBDA rel_path, fm :
    IF rel_path \in DOMAIN fm THEN rel_path
    ELSE IF EndsWith(rel_path, <<"/">>) /\ (rel_path \o <<"i","n","d","e","x",".","h","t","m","l">>) \in DOMAIN fm
      THEN rel_path \o <<"i","n","d","e","x",".","h","t","m","l">>
    ELSE IF ~EndsWith(Lower(rel_path), <<".","h","t","m","l">>) /\ (rel_path \o <<".","h","t","m","l">>) \in DOMAIN fm
      THEN rel_path \o <<".","h","t","m","l">>
    ELSE IF ~Contains(basename(rel_path), <<".">>)
            /\ (RStripSlash(rel_path) \o <<"/","i","n","d","e","x",".","h","t","m","l">>) \in DOMAIN fm
      THEN RStripSlash(rel_path) \o <<"/","i","n","d","e","x",".","h","t","m","l">>
    ELSE None,
    norm_slashes(rel_path0), file_map0)

\* try_variants_in_map(rel_path, file_map): the hit, None without one.
try_variants_in_map(rel_path0, file_map0) ==
  Strict2(LAMBDA rel_path, fm :
    IF rel_path \in DOMAIN fm THEN rel_path
    ELSE IF EndsWith(rel_path, <<"/">>) /\ (rel_path \o <<"i","n","d","e","x",".","h","t","m","l">>) \in DOMAIN fm
      THEN rel_path \o <<"i","n","d","e","x",".","h","t","m","l">>
    ELSE IF ~Contains(basename(rel_path), <<".">>)
            /\ (RStripSlash(rel_path) \o <<"/","i","n","d","e","x",".","h","t","m","l">>) \in DOMAIN fm
      THEN RStripSlash(rel_path) \o <<"/","i","n","d","e","x",".","h","t","m","l">>
    ELSE IF ~EndsWith(Lower(rel_path), <<".","h","t","m","l">>) /\ (rel_path \o <<".","h","t","m","l">>) \in DOMAIN fm
      THEN rel_path \o <<".","h","t","m","l">>
    ELSE None,
    norm_slashes(rel_path0), file_map0)

MAX_STRIP_PREFIX_SEGMENTS == 2

\* resolve_local_target(rel_path, file_map): the loop over cut, from cut on.
RECURSIVE resolve_cut(_, _, _)
resolve_cut(parts, fm, cut) ==
  IF cut > (IF MAX_STRIP_PREFIX_SEGMENTS < Len(parts) THEN MAX_STRIP_PREFIX_SEGMENTS ELSE Len(parts))
    THEN None
  ELSE IF try_variants_in_map(Join(Sub(parts, cut + 1, Len(parts)), "/"), fm) # None
    THEN try_variants_in_map(Join(Sub(parts, cut + 1, Len(parts)), "/"), fm)
  ELSE resolve_cut(parts, fm, cut + 1)

resolve_local_target(rel_path0, fm0) ==
  Strict2(LAMBDA rel_path, fm :
    IF try_variants_in_map(rel_path, fm) # None
      THEN try_variants_in_map(rel_path, fm)
      ELSE Strict3(resolve_cut, SelectSeq(Split(rel_path, "/"), NonEmpty), fm, 1),
    rel_path0, fm0)

\* make_relative(from_file, to_rel)
make_relative(from_file, to_rel) ==
  norm_slashes(relpath(os_path_join(SiteDir, to_rel), dirname(from_file)))

SkipSchemes == { <<"m","a","i","l","t","o",":">>, <<"t","e","l",":">>, <<"j","a","v","a","s","c","r","i","p","t",":">>, <<"d","a","t","a",":">>, <<"b","l","o","b",":">>, <<"a","b","o","u","t",":">> }

\* should_skip_scheme(url)
should_skip_scheme(url0) ==
  Strict1(LAMBDA url :
    \/ url = <<>>
    \/ url[1] = "#"
    \/ \E p \in SkipSchemes : StartsWith(Lower(url), p),
    url0)

\* The index after an optional ":port" that starts at k.
SkipPort(s, k) ==
  IF k <= Len(s) /\ s[k] = ":"
    THEN IF \E j \in (k + 1)..Len(s) : ~IsDigit(s[j])
           THEN CHOOSE j \in (k + 1)..Len(s) :
                  ~IsDigit(s[j]) /\ \A q \in (k + 1)..(j - 1) : IsDigit(s[q])
           ELSE Len(s) + 1
    ELSE k

\* extract_path_after_domain(url_str, base_host), for a host that occurs in
\* the URL: the path without query and fragment, and the fragment.
extract_path_after_domain(url_str, base_host) ==
  Bind(url_str, LAMBDA s :
  Bind(SkipPort(s, Find(Lower(s), Lower(base_host)) + Len(base_host)), LAMBDA k :
    LET slash_pos == FindFrom(s, <<"/">>, k)
        path_plus == IF slash_pos = 0 THEN <<"/">> ELSE From(s, slash_pos)
        parts == split_qf(path_plus)
    IN [path |-> IF parts.base = <<>> THEN <<"/">> ELSE parts.base, fragment |-> parts.fragment]))

\* LINK_RE on an attribute whose value has no quote character in it: whether
\* it matches, and the groups url and query (empty when the group is absent).
NoMatch == [ok |-> FALSE, url |-> <<>>, query |-> <<>>]
LINK_RE(v0) ==
  Strict1(LAMBDA v :
    LET e == FirstOf(v, {"?", "#"}, 1)
    IN IF e = 1 THEN NoMatch
       ELSE IF e = Len(v) + 1 THEN [ok |-> TRUE, url |-> v, query |-> <<>>]
       ELSE IF v[e] = "?" /\ e < Len(v) /\ FirstOf(v, {"#"}, e + 1) = Len(v) + 1
         THEN [ok |-> TRUE, url |-> Sub(v, 1, e - 1), query |-> From(v, e)]
       ELSE NoMatch,
    v0)

\* fix_filename(url, query)
fix_filename(url, query) ==
  Strict2(LAMBDA filename, q :
    IF q = <<>> THEN filename
    ELSE LET dot_index == RFind(filename, <<".">>)
         IN IF dot_index # 0
              THEN Sub(filename, 1, dot_index - 1) \o From(filename, dot_index)
                     \o <<"@">> \o LStrip(q, "?") \o From(filename, dot_index)
              ELSE filename \o <<"@">> \o LStrip(q, "?"),
    basename(url), query)

\* The replacer of process_resources_in_html, on the attribute value.
process_resources_replacer(value) ==
  Strict2(LAMBDA v, m :
    IF ~m.ok THEN v
    ELSE IF Lower(splitext(m.url)) = <<>> THEN v
    ELSE IF ~\E e \in RESOURCE_EXTS : EndsWith(Lower(m.url), e) THEN v
    ELSE Strict2(LAMBDA ext, filename :
           IF ext = <<".","c","s","s">> THEN <<"a","s","s","e","t","s","/","c","s","s","/">> \o filename
           ELSE IF ext = <<".","j","s">> THEN <<"a","s","s","e","t","s","/","j","s","/">> \o filename
           ELSE IF ext \in ResourceImgExts THEN <<"i","m","a","g","e","s","/">> \o filename
           ELSE filename,
           Lower(splitext(m.url)), fix_filename(m.url, m.query)),
    value, LINK_RE(value))

\* rewrite_attr: the target the reference resolves to, None without one.
IndexHtml == <<"i","n","d","e","x",".","h","t","m","l">>
IndexHtm == <<"i","n","d","e","x",".","h","t","m">>

\* rewrite_attr(tag, attr): the attribute's value afterwards.
rewrite_attr(from_file, v, dom, fm) ==
  IF v = <<>> THEN v
  ELSE IF should_skip_scheme(v) THEN v
  ELSE IF ~Contains(Lower(v), Lower(dom)) THEN v
  ELSE
    Bind(extract_path_after_domain(v, dom), LAMBDA extracted :
    Bind(clean_root_path(extracted.path), LAMBDA cleaned :
    Bind(IF cleaned = <<>> /\ IndexHtml \in DOMAIN fm THEN IndexHtml
         ELSE IF cleaned = <<>> /\ IndexHtm \in DOMAIN fm THEN IndexHtm
         ELSE IF is_resource_path(cleaned)
           THEN (IF cleaned \in DOMAIN fm THEN cleaned ELSE None)
         ELSE resolve_local_target(cleaned, fm), LAMBDA target_rel :
      IF target_rel = None THEN v
      ELSE make_relative(from_file, target_rel)
             \o (IF extracted.fragment # <<>> THEN <<"#">> \o extracted.fragment ELSE <<>>))))

\* The src branch of rewrite_srcset_call.
rewrite_src(from_file, v, img_map) ==
  Bind(Lower(unquote(basename(v))), LAMBDA clean_name :
    IF clean_name \in DOMAIN img_map THEN make_relative(from_file, img_map[clean_name]) ELSE v)

\* The two re.sub calls that open normalize_css_filename.
StripArchivePrefix(href) ==
  LET p == IF StartsWith(href, HttpPfx \o <<"w","e","b",".","a","r","c","h","i","v","e",".","o","r","g","/","w","e","b","/">>) THEN Len(HttpPfx) + 20
           ELSE IF StartsWith(href, HttpsPfx \o <<"w","e","b",".","a","r","c","h","i","v","e",".","o","r","g","/","w","e","b","/">>) THEN Len(HttpsPfx) + 20
           ELSE 0
      q == IF p = 0 THEN 0 ELSE FindFrom(href, <<"/">>, p)
  IN IF p # 0 /\ q >= p + 2 /\ IsDigit(href[p]) THEN From(href, q + 1) ELSE href

StripHttpPrefix(href) ==
  IF StartsWith(href, HttpPfx) THEN From(href, Len(HttpPfx) + 1)
  ELSE IF StartsWith(href, HttpsPfx) THEN From(href, Len(HttpsPfx) + 1)
  ELSE href

CountChar(s, c) == Cardinality({k \in 1..Len(s) : s[k] = c})

\* normalize_css_filename(href, html_path)
normalize_css_filename(href, html_path) ==
  Bind(dirname(relpath(html_path, SiteDir)), LAMBDA html_dir :
    Concat([k \in 1..(IF html_dir = <<>> THEN 0 ELSE CountChar(html_dir, "/") + 1) |-> <<".",".","/">>]))
  \o <<"a","s","s","e","t","s","/","c","s","s","/">>
  \o Bind(basename(Strict1(StripHttpPrefix, Strict1(StripArchivePrefix, href))), LAMBDA base :
       LET safe_name == Replace(Replace(base, "?", "@"), "&", ",")
       IN IF EndsWith(Lower(safe_name), <<".","c","s","s">>) THEN safe_name ELSE safe_name \o <<".","c","s","s">>)

\* build_file_map(site_dir)[0]: the dicts the walk can produce.  Two files
\* whose paths differ in letter case only share a key; the one os.walk lists
\* last wins, and that order is the file system's.
build_file_map(tree) ==
  LET P == {PathJoin(f[1], f[2]) : f \in DOMAIN tree}
      K == {Lower(p) : p \in P}
  IN IF Cardinality(K) = Cardinality(P)
       THEN {[k \in K |-> CHOOSE p \in P : Lower(p) = k]}
       ELSE {m \in [K -> P] : \A k \in K : Lower(m[k]) = k}

(***************************************************************************)
(* CSS path rewriting (script.py 1046-1109)                                *)
(***************************************************************************)

ImportWord == <<"@","i","m","p","o","r","t">>
UrlOpen == <<"u","r","l","(">>

\* Where the first "url(" of a text starts, in any letter case; 0 without one.
FindUrlOpen(txt) == Find(Lower(txt), UrlOpen)

\* The @import pattern on a text that is one directive, "@import url(...);"
\* or "@import '...';": whether it matches, and the group that matched.
\* What (.*?) holds between "url(" and ")": leading white space and one
\* quote, and one quote and trailing white space, are matched outside it.
url_group(inner) ==
  Bind(LStripSet(inner, WhiteSpace), LAMBDA g :
  Bind(RStripSet(IF g # <<>> /\ g[1] \in Quotes THEN Tail(g) ELSE g, WhiteSpace), LAMBDA h :
    IF h # <<>> /\ h[Len(h)] \in Quotes THEN Sub(h, 1, Len(h) - 1) ELSE h))

NoImport == [ok |-> FALSE, form |-> "none", group |-> <<>>]
import_match(txt0) ==
  Bind(txt0, LAMBDA txt :
    IF /\ StartsWith(Lower(txt), ImportWord)
       /\ Len(txt) > Len(ImportWord)
       /\ txt[Len(ImportWord) + 1] \in WhiteSpace
    THEN
      Bind(StripChars(From(txt, Len(ImportWord) + 1), WhiteSpace), LAMBDA body :
        IF StartsWith(Lower(body), UrlOpen)
          THEN (IF FindFrom(body, <<")">>, 1) # 0
                   /\ StripChars(From(body, FindFrom(body, <<")">>, 1) + 1), WhiteSpace) = <<";">>
                  THEN [ok |-> TRUE, form |-> "url",
                        group |-> url_group(Sub(body, Len(UrlOpen) + 1, FindFrom(body, <<")">>, 1) - 1))]
                  ELSE NoImport)
        ELSE IF body # <<>> /\ body[1] \in Quotes
          THEN (LET Q == {q \in 2..Len(body) :
                            body[q] \in Quotes /\ StripChars(From(body, q + 1), WhiteSpace) = <<";">>}
                IN IF Q # {}
                     THEN [ok |-> TRUE, form |-> "string",
                           group |-> Sub(body, 2, (CHOOSE q \in Q : \A r \in Q : q <= r) - 1)]
                     ELSE NoImport)
        ELSE NoImport)
    ELSE NoImport)

\* (m.group(1) or m.group(2)) is None when the url(...) form matched with
\* nothing between the parentheses: .strip() raises AttributeError.
repl_import_raises(txt) ==
  import_match(txt).ok /\ import_match(txt).form = "url" /\ import_match(txt).group = <<>>

\* repl_import(m) for a stylesheet at css_abs
repl_import(txt, css_map, css_abs) ==
  Bind(import_match(txt), LAMBDA m :
    IF ~m.ok THEN txt
    ELSE
      Bind(strip_wayback(StripChars(StripChars(m.group, WhiteSpace), Quotes)), LAMBDA clean :
        LET key == Lower(url_basename(clean))
            target == IF key \in DOMAIN css_map THEN css_map[key]
                      ELSE IF clean \in DOMAIN css_map THEN css_map[clean]
                      ELSE None
        IN IF target = None THEN txt
           ELSE <<"@","i","m","p","o","r","t"," ","\"">>
                  \o norm_slashes(relpath(os_path_join(SiteDir, target), dirname(css_abs)))
                  \o <<"\"",";">>))

\* repl_url(m): the replacement for the match group0 = "url(" group1 ")";
\* inside is group1 stripped of blanks and quotes, clean is inside without
\* its Wayback prefix, fragment and query.
repl_url(group0, tables, css_abs) ==
  Strict1(LAMBDA inside :
    Strict1(LAMBDA clean :
      LET key == Lower(url_basename(clean))
          target == IF key \in DOMAIN tables.img_map THEN tables.img_map[key]
                    ELSE IF clean \in DOMAIN tables.img_map THEN tables.img_map[clean]
                    ELSE IF key \in DOMAIN tables.font_map THEN tables.font_map[key]
                    ELSE IF clean \in DOMAIN tables.font_map THEN tables.font_map[clean]
                    ELSE None
      IN IF target = None
           THEN (IF clean # inside THEN UrlOpen \o clean \o <<")">> ELSE group0)
           ELSE UrlOpen
                  \o norm_slashes(relpath(os_path_join(SiteDir, target), dirname(css_abs)))
                  \o <<")">>,
      Before(Before(strip_wayback(inside), <<"#">>), <<"?">>)),
    StripChars(StripChars(Sub(group0, Len(UrlOpen) + 1, Len(group0) - 1), WhiteSpace), Quotes))

\* re.sub(r'url\((.*?)\)', repl_url, txt2) on a text with at most one
\* url(...): a is the index of "url(", b the index of the first ")" after it.
sub_url(txt, tables, css_abs) ==
  Strict1(LAMBDA a :
    Strict1(LAMBDA b :
      IF a = 0 \/ b = 0 THEN txt
      ELSE Sub(txt, 1, a - 1) \o repl_url(Sub(txt, a, b), tables, css_abs) \o From(txt, b + 1),
      IF a = 0 THEN 0 ELSE FindFrom(txt, <<")">>, a + Len(UrlOpen))),
    FindUrlOpen(txt))

(***************************************************************************)
(* Link rewriting: the passes over one reference                           *)
(***************************************************************************)

\* Where a reference stands: the href of an <a>, the src of a <script> or of
\* an <img>, the href of a <link rel="stylesheet"> in the head, or a
\* directive of a stylesheet in assets/css.
MarkupKinds == {"a_href", "script_src", "img_src", "link_href"}
CssKinds == {"css_url", "css_import_url", "css_import_str"}

RefPrefixes ==
  { <<>>, <<"h","t","t","p","s",":","/","/","s","i","t","e",".","e","x","a","m","p","l","e">>, <<"h","t","t","p","s",":","/","/","s","u","b",".","s","i","t","e",".","e","x","a","m","p","l","e">>,
    <<"h","t","t","p","s",":","/","/","e","v","i","l",".","e","x","a","m","p","l","e">>, <<"h","t","t","p","s",":","/","/","s","i","t","e",".","e","x","a","m","p","l","e",".","e","v","i","l",".","c","o","m">>, <<"/","/","e","v","i","l",".","e","x","a","m","p","l","e">>,
    <<"m","a","i","l","t","o",":">>, <<"J","a","v","a","S","c","r","i","p","t",":">>, <<"d","a","t","a",":">>, <<"b","l","o","b",":">>, <<"t","e","l",":">>, <<"a","b","o","u","t",":">>, <<"#">> }
RefPaths == { <<>>, <<"/","x">>, <<"/","x",".","j","s">>, <<"/","b","l","o","g","/","p","o","s","t","/","i","m","a","g","e",".","p","n","g">> }
RefSuffixes == { <<>>, <<"?","v","=","2">>, <<"#","f">> }
RefValues == {p \o q \o s : p \in RefPrefixes, q \in RefPaths, s \in RefSuffixes}

\* The text that carries a reference.
Directive(k, r) ==
  IF k = "css_url" THEN <<"u","r","l","(">> \o r \o <<")">>
  ELSE IF k = "css_import_url" THEN <<"@","i","m","p","o","r","t"," ","u","r","l","(">> \o r \o <<")",";">>
  ELSE IF k = "css_import_str" THEN <<"@","i","m","p","o","r","t"," ","\"">> \o r \o <<"\"",";">>
  ELSE r

MarkupFiles == { <<"s","i","t","e","/","i","n","d","e","x",".","h","t","m","l">>, <<"s","i","t","e","/","b","l","o","g","/","p","o","s","t","/","i","n","d","e","x",".","h","t","m","l">> }
CssFiles == { <<"s","i","t","e","/","a","s","s","e","t","s","/","c","s","s","/","m","a","i","n",".","c","s","s">> }
DomainInputs == { <<"h","t","t","p","s",":","/","/","s","i","t","e",".","e","x","a","m","p","l","e">>, <<"s","i","t","e",".","e","x","a","m","p","l","e">> }

\* Consolidated sites: the other files of the tree and the Resource Table.
\* Files that were already under assets/ are in the tree without a key in
\* the table.
Sites ==
  << [paths |-> {}, maps |-> EmptyMaps],
     [paths |-> { <<"i","n","d","e","x",".","h","t","m","l">>, <<"x","/","i","n","d","e","x",".","h","t","m","l">>, <<"a","s","s","e","t","s","/","j","s","/","x",".","j","s">>,
                  <<"a","s","s","e","t","s","/","i","m","a","g","e","s","/","i","m","a","g","e",".","p","n","g">> },
      maps |-> [img_map |-> Put(EmptyMap, <<"i","m","a","g","e",".","p","n","g">>, <<"a","s","s","e","t","s","/","i","m","a","g","e","s","/","i","m","a","g","e",".","p","n","g">>),
                css_map |-> EmptyMap,
                js_map |-> Put(EmptyMap, <<"x",".","j","s">>, <<"a","s","s","e","t","s","/","j","s","/","x",".","j","s">>),
                font_map |-> EmptyMap]],
     [paths |-> { <<"i","n","d","e","x",".","h","t","m","l">>, <<"x",".","h","t","m","l">>, <<"a","s","s","e","t","s","/","j","s","/","x",".","j","s">>,
                  <<"a","s","s","e","t","s","/","i","m","a","g","e","s","/","i","m","a","g","e",".","p","n","g">> },
      maps |-> EmptyMaps] >>

TreeOf(paths) == [f \in {<<dirname(p), basename(p)>> : p \in paths} |-> 1]

\* The consolidator has finished.
AssetsDone ==
  /\ donor = EmptyMap /\ pc = "consolidated" /\ todo = {} /\ root = None
  /\ files = {} /\ dd_class = 0 /\ dd_names = <<>> /\ seen = EmptyMap
  /\ run = 1 /\ after_walk = EmptyMap /\ registered = {} /\ first_run = NoRun

InitRewrite ==
  /\ kind \in MarkupKinds \cup CssKinds
  /\ file_path \in (IF kind \in MarkupKinds THEN MarkupFiles ELSE CssFiles)
  /\ ref \in RefValues
  /\ \E s \in 1..Len(Sites) :
       /\ fs = TreeOf(Sites[s].paths \cup {From(file_path, Len(SiteDir) + 2)})
       /\ maps = Sites[s].maps
  /\ domain_full \in DomainInputs
  /\ file_map = EmptyMap
  /\ val0 = Directive(kind, ref)
  /\ val = val0
  /\ val_in = None
  /\ present = TRUE
  /\ rw_pc = (IF kind \in MarkupKinds THEN "srcset" ELSE "css_import")
  /\ AssetsDone /\ WaybackIdle /\ MinifyIdle /\ RunIdle /\ MinRunIdle /\ ResolveIdle /\ TextIdle

\* rewrite_srcset_call on the file (script.py 737-752); walk_and_fix starts
\* on what it wrote.
RewriteSrcsetCall ==
  /\ rw_pc = "srcset"
  /\ val' = (IF kind = "img_src" THEN rewrite_src(file_path, val, maps.img_map) ELSE val)
  /\ val_in' = val'
  /\ rw_pc' = "resources"
  /\ UNCHANGED <<fs, maps, domain_full, file_map, kind, file_path, ref, val0, present>>
  /\ UNCHANGED varsNotRewrite

\* process_resources_in_html on the file (script.py 792-822)
ProcessResourcesInHtml ==
  /\ rw_pc = "resources"
  /\ val' = process_resources_replacer(val)
  /\ rw_pc' = "index"
  /\ UNCHANGED <<fs, maps, domain_full, file_map, kind, file_path, ref, val0, val_in, present>>
  /\ UNCHANGED varsNotRewrite

\* build_file_map at the start of fix_local_links_in_site (script.py 827)
BuildFileMap ==
  /\ rw_pc = "index"
  /\ file_map' \in build_file_map(fs)
  /\ rw_pc' = "links"
  /\ UNCHANGED <<fs, maps, domain_full, kind, file_path, ref, val0, val_in, val, present>>
  /\ UNCHANGED varsNotRewrite

\* rewrite_attr on the attribute (script.py 846-886)
RewriteAttr ==
  /\ rw_pc = "links"
  /\ val' = rewrite_attr(file_path, val, domain_full, file_map)
  /\ rw_pc' = "linked"
  /\ UNCHANGED <<fs, maps, domain_full, file_map, kind, file_path, ref, val0, val_in, present>>
  /\ UNCHANGED varsNotRewrite

\* process_html_file on the file (script.py 940-972): every stylesheet link
\* of the head is removed, and one with a normalised href is appended for
\* each that had an href not ending in -built-in.css.
ProcessHtmlFile ==
  /\ rw_pc = "linked"
  /\ IF kind = "link_href"
       THEN IF val = <<>> \/ EndsWith(Lower(val), <<"-","b","u","i","l","t","-","i","n",".","c","s","s">>)
              THEN present' = FALSE /\ val' = val
              ELSE present' = TRUE /\ val' = normalize_css_filename(val, file_path)
       ELSE UNCHANGED <<present, val>>
  /\ rw_pc' = "done"
  /\ UNCHANGED <<fs, maps, domain_full, file_map, kind, file_path, ref, val0, val_in>>
  /\ UNCHANGED varsNotRewrite

\* The first re.sub of css_rewrite_paths (script.py 1071-1074).  The
\* AttributeError of repl_import is caught nowhere: the program ends.
CssReplImport ==
  /\ rw_pc = "css_import"
  /\ IF repl_import_raises(val)
       THEN val' = val /\ rw_pc' = "crashed"
       ELSE val' = repl_import(val, maps.css_map, file_path) /\ rw_pc' = "css_url"
  /\ UNCHANGED <<fs, maps, domain_full, file_map, kind, file_path, ref, val0, val_in, present>>
  /\ UNCHANGED varsNotRewrite

\* The second re.sub of css_rewrite_paths (script.py 1103)
CssReplUrl ==
  /\ rw_pc = "css_url"
  /\ val' = sub_url(val, maps, file_path)
  /\ rw_pc' = "done"
  /\ UNCHANGED <<fs, maps, domain_full, file_map, kind, file_path, ref, val0, val_in, present>>
  /\ UNCHANGED varsNotRewrite

NextRewrite ==
  \/ RewriteSrcsetCall
  \/ ProcessResourcesInHtml
  \/ BuildFileMap
  \/ RewriteAttr
  \/ ProcessHtmlFile
  \/ CssReplImport
  \/ CssReplUrl

SpecRewrite == InitRewrite /\ [][NextRewrite]_vars

\* The host of an absolute or protocol-relative URL, without user and port.
HostOf(v) == Before(After(Lower(urlparse(v).netloc), <<"@">>), <<":">>)

\* An absolute http(s) or protocol-relative URL whose host is neither the
\* base host nor a subdomain of it.
CrossSite(v) ==
  /\ v # None
  /\ \/ Lower(urlparse(v).scheme) \in { <<"h","t","t","p">>, <<"h","t","t","p","s">> }
     \/ (urlparse(v).scheme = <<>> /\ StartsWith(v, <<"/","/">>))
  /\ HostOf(v) # <<>>
  /\ HostOf(v) # clean_domain(domain_full)
  /\ ~EndsWith(HostOf(v), <<".">> \o clean_domain(domain_full))

\* C5: after process_resources_in_html and rewrite_attr, a src/href that was
\* an absolute http(s) or protocol-relative URL on a host that is neither the
\* base host nor a subdomain of it still has the value it had before them.
C5_CrossSiteKept ==
  (rw_pc = "linked" /\ CrossSite(val_in)) => val = val_in

\* A value that starts with one of the six non-navigable schemes, in any
\* letter case, or with '#'.
NonNavigable(v) ==
  /\ v # None
  /\ \/ StartsWith(v, <<"#">>)
     \/ \E p \in { <<"m","a","i","l","t","o",":">>, <<"t","e","l",":">>, <<"j","a","v","a","s","c","r","i","p","t",":">>, <<"d","a","t","a",":">>, <<"b","l","o","b",":">>, <<"a","b","o","u","t",":">> } :
          StartsWith(Lower(v), p)

\* C6: a src/href value that starts with mailto:, tel:, javascript:, data:,
\* blob: or about: (in any letter case) or with '#' is unchanged after
\* process_resources_in_html and rewrite_attr, whatever the Resource Table
\* and the File Index hold.
C6_NonNavigableKept ==
  (rw_pc = "linked" /\ NonNavigable(val_in)) => val = val_in

\* The last path segment of the reference, percent-decoded and lower-cased.
RefName == Lower(unquote(url_basename(ref)))

\* The reference names nothing the site has: its last path segment is no key
\* of the Resource Table, and no file or directory of the tree has that
\* name, with or without ".html".
MatchesNothing ==
  /\ RefName # <<>>
  /\ \A c \in 1..4 : RefName \notin DOMAIN maps[Classes[c].map]
                     /\ ref \notin DOMAIN maps[Classes[c].map]
  /\ \A f \in DOMAIN fs :
       /\ Lower(f[2]) \notin {RefName, RefName \o <<".","h","t","m","l">>}
       /\ RefName \notin {Lower(d) : d \in {basename(a) : a \in Ancestors(f[1])}}

\* C7: a reference, in a markup attribute or in a stylesheet url()/@import,
\* that matches no entry of the Resource Table and no File Index path is, at
\* the end of the rewriting passes, still in its file with the text it had
\* (query string and fragment included).
C7_UnresolvedVerbatim ==
  (rw_pc = "done" /\ MatchesNothing) => (present /\ val = val0)

(***************************************************************************)
(* Minification (script.py 1353-1464)                                      *)
(***************************************************************************)

\* The end of the first "*/" at or after index k of s, 0 when there is none.
CommentEnd(s, k) ==
  IF FindFrom(s, <<"*","/">>, k) = 0 THEN 0 ELSE FindFrom(s, <<"*","/">>, k) + 1

\* Where /\*.*?\*/ (DOTALL) matches first at or after the index i: at the
\* first "/*" that a "*/" follows.  0 when it does not match.
CommentStart(css, i) ==
  IF FindFrom(css, <<"/","*">>, i) # 0 /\ CommentEnd(css, FindFrom(css, <<"/","*">>, i) + 2) # 0
    THEN FindFrom(css, <<"/","*">>, i) ELSE 0

\* _strip_css_comments_keep_licenses: the re.sub from the index i on.  A
\* match is kept when it starts with "/*!".
RECURSIVE strip_css_from(_, _)
strip_css_match(css, i, p) ==
  IF p = 0 THEN From(css, i)
  ELSE Sub(css, i, p - 1)
         \o (IF OccursAt(css, <<"/","*","!">>, p) THEN Sub(css, p, CommentEnd(css, p + 2)) ELSE <<>>)
         \o strip_css_from(css, CommentEnd(css, p + 2) + 1)
strip_css_from(css, i) == Strict3(strip_css_match, css, i, CommentStart(css, i))

_strip_css_comments_keep_licenses(css) == Strict2(strip_css_from, css, 1)

\* The index of the "\n" that ends a match of \n[ \t]+\n starting at i, 0
\* when there is no match at i.
BlankLineEnd(s, i) ==
  IF s[i] # "\n" THEN 0
  ELSE LET e == FirstOf(s, Chars \ {" ", "\t"}, i + 1)
       IN IF e > i + 1 /\ e <= Len(s) /\ s[e] = "\n" THEN e ELSE 0

\* Where \n[ \t]+\n matches first at or after the index i, 0 when it does not.
BlankLineStart(s, i) ==
  IF \E p \in i..Len(s) : BlankLineEnd(s, p) # 0
    THEN CHOOSE p \in i..Len(s) :
           BlankLineEnd(s, p) # 0 /\ \A q \in i..(p - 1) : BlankLineEnd(s, q) = 0
    ELSE 0

\* re.sub(r"\n[ \t]+\n", "\n\n", s) from the index i on.
RECURSIVE sub_blank_lines(_, _)
sub_blank_match(s, i, p) ==
  IF p = 0 THEN From(s, i)
  ELSE Sub(s, i, p - 1) \o <<"\n", "\n">> \o sub_blank_lines(s, BlankLineEnd(s, p) + 1)
sub_blank_lines(s, i) == Strict3(sub_blank_match, s, i, BlankLineStart(s, i))

\* The characters of s at the indices of K, in order.
Pick(s, K) ==
  [j \in 1..Cardinality(K) |-> s[CHOOSE k \in K : Cardinality({x \in K : x <= k}) = j]]

\* re.sub(r"\n{3,}", "\n\n", s): of a run of line feeds the first two stay.
KeepLineFeed(s, k) == ~(k >= 3 /\ s[k] = "\n" /\ s[k - 1] = "\n" /\ s[k - 2] = "\n")
sub_line_feeds(s0) ==
  Strict1(LAMBDA s :
    Pick(s, {k \in 1..Len(s) : KeepLineFeed(s, k)}),
    s0)

\* str.strip()
StrSpace == {" ", "\t", "\n", "\r"}

\* The tail of minify_code: the two re.sub calls and strip().
normalize_blank(content) ==
  StripChars(sub_line_feeds(Strict2(sub_blank_lines, content, 1)), StrSpace)

\* is_regex_context(prev_non_ws)
RegexContextChars ==
  {"(", "[", "{", ",", ":", "=", "!", "+", "-", "*", "%", "&", "|", "^", "~",
   "?", "<", ">", ";"}
is_regex_context(prev_non_ws) ==
  prev_non_ws = None \/ \E c \in RegexContextChars : prev_non_ws = <<c>>

\* js[i] and js[a:b] with Python's 0-based indices.
At(js, i) == IF i >= 0 /\ i < Len(js) THEN js[i + 1] ELSE ""
Slice(js, a, b) == Sub(js, (IF a < 0 THEN 0 ELSE a) + 1, IF b > Len(js) THEN Len(js) ELSE b)

\* The delimiter that closes a literal state.
Closer(state) ==
  IF state = "SQUOTE" THEN "'"
  ELSE IF state = "DQUOTE" THEN "\""
  ELSE IF state = "TEMPLATE" THEN Chr(96)
  ELSE "/"

\* The state a quote character opens.
Opens(ch) ==
  IF ch = "'" THEN "SQUOTE" ELSE IF ch = "\"" THEN "DQUOTE" ELSE "TEMPLATE"

\* The loop that looks back for the comment's opening: the largest j in
\* 1..i-1 with js[j-1:j+1] == '/*', 0 when there is none.
OpeningJ(js, i) ==
  LET J == {j \in 1..(i - 1) : At(js, j - 1) = "/" /\ At(js, j) = "*"}
  IN IF J = {} THEN 0 ELSE MaxOf(J)

\* is_license as the scanner computes it when it is at the closing "*/".
is_license(js, i) == OpeningJ(js, i) # 0 /\ At(js, OpeningJ(js, i)) = "!"

(***************************************************************************)
(* Minification of one file                                                *)
(***************************************************************************)

MaxToks == 3

\* The pieces script texts are made of.  A "/" piece is a division: it
\* stands between two operands.
JsPieces ==
  { [type |-> "literal", text |-> <<"'","a","'">>],
    [type |-> "literal", text |-> <<"'","/","/","*","'">>],
    [type |-> "literal", text |-> <<"\"","/","*","x","*","/","\"">>],
    [type |-> "literal", text |-> <<"\"","\\","\"","/","/","\"">>],
    [type |-> "literal", text |-> <<"BACKTICK","/","/","BACKTICK">>],
    [type |-> "operand", text |-> <<"n">>],
    [type |-> "divide", text |-> <<"/">>],
    [type |-> "code", text |-> <<";">>],
    [type |-> "license", text |-> <<"/","*","!"," ","k","e","e","p"," ","m","e"," ","*","/">>],
    [type |-> "comment", text |-> <<"/","*"," ","d","r","o","p"," ","m","e"," ","*","/">>],
    [type |-> "line_comment", text |-> <<"/", "/", "c", "\n">>],
    [type |-> "space", text |-> <<"\n">>] }

\* The pieces stylesheet texts are made of.
CssPieces ==
  { [type |-> "license", text |-> <<"/","*","!"," ","k","e","e","p"," ","m","e"," ","*","/">>],
    [type |-> "license", text |-> <<"/", "*", "!", "\n", "\n", "\n", "M", "I", "T", " ", "*", "/">>],
    [type |-> "comment", text |-> <<"/","*"," ","d","r","o","p"," ","m","e"," ","*","/">>],
    [type |-> "code", text |-> <<"a","{","}">>],
    [type |-> "code", text |-> <<"b","{","c","o","n","t","e","n","t",":","\"","/","*","!","\"","}">>],
    [type |-> "space", text |-> <<"\n">>],
    [type |-> "space", text |-> <<" ">>] }

PieceSeqs(P) == UNION {[1..n -> P] : n \in 1..MaxToks}

IsOperand(p) == p.type \in {"literal", "operand"}

\* Every division has an operand directly on each side.
WellFormedJs(toks) ==
  \A k \in 1..Len(toks) :
    toks[k].type = "divide" =>
      /\ k > 1 /\ IsOperand(toks[k - 1])
      /\ k < Len(toks) /\ IsOperand(toks[k + 1])

TextOf(toks) == Concat([k \in 1..Len(toks) |-> toks[k].text])

InitMinify ==
  /\ mn_type \in {"css", "js"}
  /\ mn_toks \in (IF mn_type = "css" THEN PieceSeqs(CssPieces)
                  ELSE {t \in PieceSeqs(JsPieces) : WellFormedJs(t)})
  /\ mn_in = TextOf(mn_toks)
  /\ js_state = "OUT" /\ js_i = 0 /\ js_escaped = FALSE /\ js_prev = None
  /\ js_out = <<>>
  /\ mn_text = <<>>
  /\ mn_out = None
  /\ mn_pc = (IF mn_type = "css" THEN "strip" ELSE "scan")
  /\ AssetsIdle /\ WaybackIdle /\ RewriteIdle /\ RunIdle /\ MinRunIdle /\ ResolveIdle /\ TextIdle

\* minify_code, filetype "css": _strip_css_comments_keep_licenses
StripCssComments ==
  /\ mn_pc = "strip" /\ mn_type = "css"
  /\ mn_text' = _strip_css_comments_keep_licenses(mn_in)
  /\ mn_pc' = "normalize"
  /\ UNCHANGED <<mn_type, mn_toks, mn_in, js_state, js_i, js_escaped, js_prev, js_out, mn_out>>
  /\ UNCHANGED varsNotMinify

\* One turn of the scanner's loop in state OUT.
ScanOut ==
  /\ mn_pc = "scan" /\ js_i < Len(mn_in) /\ js_state = "OUT"
  /\ LET ch == At(mn_in, js_i)
         nxt == At(mn_in, js_i + 1)
     IN IF ch \in {" ", "\t", "\r", "\n"}
          THEN /\ js_out' = Append(js_out, ch)
               /\ js_i' = js_i + 1
               /\ UNCHANGED <<js_state, js_escaped, js_prev>>
        ELSE IF ch = "/" /\ nxt = "/"
          THEN /\ js_state' = "LINE_COMMENT"
               /\ js_i' = js_i + 2
               /\ UNCHANGED <<js_out, js_escaped, js_prev>>
        ELSE IF ch = "/" /\ nxt = "*"
          THEN /\ js_state' = "BLOCK_COMMENT"
               /\ js_i' = js_i + 2
               /\ UNCHANGED <<js_out, js_escaped, js_prev>>
        ELSE IF ch \in {"'", "\"", Chr(96)}
          THEN /\ js_state' = Opens(ch)
               /\ js_out' = Append(js_out, ch)
               /\ js_i' = js_i + 1
               /\ js_escaped' = FALSE
               /\ UNCHANGED js_prev
        ELSE IF ch = "/" /\ is_regex_context(js_prev)
          THEN /\ js_state' = "REGEX"
               /\ js_out' = Append(js_out, ch)
               /\ js_i' = js_i + 1
               /\ js_escaped' = FALSE
               /\ UNCHANGED js_prev
        ELSE /\ js_out' = Append(js_out, ch)
             /\ js_prev' = (IF ch \in {"\f"} THEN js_prev ELSE <<ch>>)
             /\ js_i' = js_i + 1
             /\ UNCHANGED <<js_state, js_escaped>>
  /\ UNCHANGED <<mn_type, mn_toks, mn_in, mn_text, mn_out, mn_pc>>
  /\ UNCHANGED varsNotMinify

\* One turn in state LINE_COMMENT.
ScanLineComment ==
  /\ mn_pc = "scan" /\ js_i < Len(mn_in) /\ js_state = "LINE_COMMENT"
  /\ IF At(mn_in, js_i) \in {"\r", "\n"}
       THEN js_out' = Append(js_out, At(mn_in, js_i)) /\ js_state' = "OUT"
       ELSE UNCHANGED <<js_out, js_state>>
  /\ js_i' = js_i + 1
  /\ UNCHANGED <<js_escaped, js_prev>>
  /\ UNCHANGED <<mn_type, mn_toks, mn_in, mn_text, mn_out, mn_pc>>
  /\ UNCHANGED varsNotMinify

\* One turn in state BLOCK_COMMENT.
ScanBlockComment ==
  /\ mn_pc = "scan" /\ js_i < Len(mn_in) /\ js_state = "BLOCK_COMMENT"
  /\ IF At(mn_in, js_i) = "*" /\ At(mn_in, js_i + 1) = "/"
       THEN /\ js_out' = (IF is_license(mn_in, js_i)
                            THEN js_out \o <<"/","*">>
                                   \o Slice(mn_in, OpeningJ(mn_in, js_i) + 1, js_i) \o <<"*","/">>
                            ELSE js_out)
            /\ js_i' = js_i + 2
            /\ js_state' = "OUT"
       ELSE /\ js_i' = js_i + 1
            /\ UNCHANGED <<js_out, js_state>>
  /\ UNCHANGED <<js_escaped, js_prev>>
  /\ UNCHANGED <<mn_type, mn_toks, mn_in, mn_text, mn_out, mn_pc>>
  /\ UNCHANGED varsNotMinify

\* One turn in state SQUOTE, DQUOTE, TEMPLATE or REGEX.
ScanLiteral ==
  /\ mn_pc = "scan" /\ js_i < Len(mn_in)
  /\ js_state \in {"SQUOTE", "DQUOTE", "TEMPLATE", "REGEX"}
  /\ js_out' = Append(js_out, At(mn_in, js_i))
  /\ js_state' = (IF ~js_escaped /\ At(mn_in, js_i) = Closer(js_state) THEN "OUT" ELSE js_state)
  /\ js_escaped' = (~js_escaped /\ At(mn_in, js_i) = "\\")
  /\ js_i' = js_i + 1
  /\ UNCHANGED js_prev
  /\ UNCHANGED <<mn_type, mn_toks, mn_in, mn_text, mn_out, mn_pc>>
  /\ UNCHANGED varsNotMinify

\* The loop ends: _strip_js_comments_preserve_strings returns ''.join(out).
ScanReturn ==
  /\ mn_pc = "scan" /\ js_i >= Len(mn_in)
  /\ mn_text' = js_out
  /\ mn_pc' = "normalize"
  /\ UNCHANGED <<mn_type, mn_toks, mn_in, js_state, js_i, js_escaped, js_prev, js_out, mn_out>>
  /\ UNCHANGED varsNotMinify

\* The tail of minify_code (script.py 1462-1464)
MinifyReturn ==
  /\ mn_pc = "normalize"
  /\ mn_out' = normalize_blank(mn_text)
  /\ mn_pc' = "done"
  /\ UNCHANGED <<mn_type, mn_toks, mn_in, js_state, js_i, js_escaped, js_prev, js_out, mn_text>>
  /\ UNCHANGED varsNotMinify

NextMinify ==
  \/ StripCssComments
  \/ ScanOut
  \/ ScanLineComment
  \/ ScanBlockComment
  \/ ScanLiteral
  \/ ScanReturn
  \/ MinifyReturn

SpecMinify == InitMinify /\ [][NextMinify]_vars

\* The pieces of the file of a given type.
PiecesOf(type) == {mn_toks[k].text : k \in {j \in 1..Len(mn_toks) : mn_toks[j].type = type}}

\* C8: every single-quoted, double-quoted or template string literal of a
\* script text is, byte for byte, a part of what
\* _strip_js_comments_preserve_strings returns for it, also when the literal
\* holds '//' or '/* ... */' and when it follows a division or a literal.
C8_LiteralsIntact ==
  (mn_type = "js" /\ mn_pc \in {"normalize", "done"}) =>
    \A l \in PiecesOf("literal") : Contains(mn_text, l)

\* C9: for a script that holds a '/*! ... */' comment and an ordinary
\* '/* drop me */' comment, what minify_code(content, 'js') returns holds the
\* first unchanged, delimiters included, and does not hold the second.
C9_JsLicenseKept ==
  (mn_type = "js" /\ mn_pc = "done"
     /\ PiecesOf("license") # {} /\ PiecesOf("comment") # {}) =>
    /\ \A l \in PiecesOf("license") : Contains(mn_out, l)
    /\ \A c \in PiecesOf("comment") : ~Contains(mn_out, c)

\* C10: what minify_code(content, 'css') returns holds every block comment
\* of the stylesheet that begins with '/*!' verbatim, delimiters included,
\* and holds no block comment that does not begin with '/*!'.
C10_CssLicenseKept ==
  (mn_type = "css" /\ mn_pc = "done") =>
    /\ \A l \in PiecesOf("license") : Contains(mn_out, l)
    /\ \A c \in PiecesOf("comment") : ~Contains(mn_out, c)

\* The nearest character of js before index i (0-based) that is not
\* whitespace, None when there is none.
PrevNonSpace(js, i) ==
  LET K == {k \in 1..i : js[k] \notin {" ", "\t", "\r", "\n"}}
  IN IF K = {} THEN None ELSE <<js[MaxOf(K)]>>

\* C17: in code state, a '/' that begins neither '//' nor '/*' enters the
\* regex state only if the nearest preceding non-whitespace character of the
\* input, the closing quote of a string or the closing '/' of a regex
\* included, is one of ( [ { , : = ! + - * % & | ^ ~ ? < > ; or there is
\* none; in every other case the '/' is emitted as a division and the
\* scanner stays in code state.
C17_RegexOnlyAfterOperator ==
  [][ (/\ mn_pc = "scan" /\ js_state = "OUT" /\ js_i < Len(mn_in)
       /\ At(mn_in, js_i) = "/" /\ At(mn_in, js_i + 1) \notin {"/", "*"}) =>
        IF PrevNonSpace(mn_in, js_i) = None
             \/ \E c \in RegexContextChars : PrevNonSpace(mn_in, js_i) = <<c>>
          THEN TRUE
          ELSE js_state' = "OUT" /\ js_out' = Append(js_out, "/") ]_vars

(***************************************************************************)
(* externalize_built_in_styles on one markup file, then the passes over    *)
(* the stylesheet link it leaves in the head                               *)
(***************************************************************************)

\* css_name of externalize_built_in_styles with strict_per_file, for the
\* markup file's path below the site.
built_in_css_name(rel_html) ==
  Bind(Before(basename(rel_html), splitext(basename(rel_html))), LAMBDA html_base :
    IF dirname(rel_html) = <<>>
      THEN html_base \o <<"-","b","u","i","l","t","-","i","n",".","c","s","s">>
      ELSE basename(dirname(rel_html)) \o <<"-">> \o html_base \o <<"-","b","u","i","l","t","-","i","n",".","c","s","s">>)

\* css_text_final for a file whose built-in styles are one style element
\* with the text css_text.
css_text_final(css_text) ==
  IF StripChars(css_text, StrSpace) = <<>> THEN <<>>
  ELSE <<"/","*"," ","e","x","t","r","a","c","t","e","d"," ","<","s","t","y","l","e",">"," ","b","l","o","c","k","s"," ","*","/">> \o <<"\n">> \o StripChars(css_text, StrSpace)

\* The text of the style element of the markup file.
StyleTexts == { <<>>, <<" ">>, <<"p","{","c","o","l","o","r",":","r","e","d","}">>, <<"\n">> \o <<"a","{","}"," ">> }

\* The markup file is in the tree with the text of its style element as its
\* content; ref is the href of a stylesheet link its head already holds for
\* css_name, empty when it holds none.
InitBuiltIn ==
  /\ kind = "link_href"
  /\ file_path \in MarkupFiles
  /\ ref \in { <<>>, built_in_css_name(From(file_path, Len(SiteDir) + 2)) }
  /\ \E s \in 1..Len(Sites), t \in StyleTexts :
       /\ fs = Bind(From(file_path, Len(SiteDir) + 2), LAMBDA rel_html :
                 Put(TreeOf(Sites[s].paths), <<dirname(rel_html), basename(rel_html)>>, t))
       /\ maps = Sites[s].maps
  /\ domain_full \in DomainInputs
  /\ file_map = EmptyMap
  /\ val0 = ref
  /\ val = ref
  /\ val_in = None
  /\ present = (ref # <<>>)
  /\ rw_pc = "externalize"
  /\ AssetsDone /\ WaybackIdle /\ MinifyIdle /\ RunIdle /\ MinRunIdle /\ ResolveIdle /\ TextIdle

\* externalize_built_in_styles on the file (script.py 453-576): the style
\* element is removed, the stylesheet is written when there is text for it,
\* and the head gets, or keeps with a corrected href, a link to it.
ExternalizeBuiltInStyles ==
  /\ rw_pc = "externalize"
  /\ LET rel_html == From(file_path, Len(SiteDir) + 2)
         html_abs == <<dirname(rel_html), basename(rel_html)>>
         css_name == built_in_css_name(rel_html)
     IN /\ fs' = (IF css_text_final(fs[html_abs]) = <<>>
                    THEN Put(fs, html_abs, <<>>)
                    ELSE Put(Put(fs, html_abs, <<>>), << <<"a","s","s","e","t","s","/","c","s","s">>, css_name >>,
                             css_text_final(fs[html_abs]) \o <<"\n">>))
        /\ val' = make_relative(file_path, <<"a","s","s","e","t","s","/","c","s","s","/">> \o css_name)
  /\ present' = TRUE
  /\ rw_pc' = "srcset"
  /\ UNCHANGED <<maps, domain_full, file_map, kind, file_path, ref, val0, val_in>>
  /\ UNCHANGED varsNotRewrite

NextBuiltIn ==
  \/ ExternalizeBuiltInStyles
  \/ RewriteSrcsetCall
  \/ ProcessResourcesInHtml
  \/ BuildFileMap
  \/ RewriteAttr
  \/ ProcessHtmlFile

SpecBuiltIn == InitBuiltIn /\ [][NextBuiltIn]_vars

\* externalize_built_in_styles wrote the stylesheet of the markup file.
WroteBuiltIn ==
  << <<"a","s","s","e","t","s","/","c","s","s">>, built_in_css_name(From(file_path, Len(SiteDir) + 2)) >> \in DOMAIN fs

\* C25: a markup file for which externalize_built_in_styles wrote a
\* -built-in.css stylesheet still has the stylesheet link to it in its head
\* after process_html_file has run on it.
C25_BuiltInLinkStays ==
  (rw_pc = "done" /\ WroteBuiltIn) => present

(***************************************************************************)
(* The run as a whole: the stages of script.py in the order they execute   *)
(***************************************************************************)

\* Whether directory d holds a page-index file (script.py 154-155, 160-161).
HasIndex(tree, d) ==
  \E n \in ListDir(tree, d) : Lower(n) \in { <<"i","n","d","e","x",".","h","t","m","l">>, <<"i","n","d","e","x",".","h","t","m">> }

\* find_domain_root (script.py 151-172): the site directory when it holds a
\* page-index file, else a shallowest directory holding one, the one with
\* more markup files first; the order of os.walk decides among equals.  The
\* result is the set of directories the call can return, {None} when no
\* directory holds a page-index file.
find_domain_root(tree) ==
  IF HasIndex(tree, <<>>) THEN {<<>>}
  ELSE LET cands == {d \in {f[1] : f \in DOMAIN tree} : HasIndex(tree, d)}
           depth == [d \in cands |-> Len(Split(d, "/"))]
           html_count ==
             [d \in cands |->
                Cardinality({n \in ListDir(tree, d) :
                               \/ EndsWith(Lower(n), <<".","h","t","m","l">>)
                               \/ EndsWith(Lower(n), <<".","h","t","m">>)})]
       IN IF cands = {} THEN {None}
          ELSE {d \in cands : \A e \in cands :
                  \/ depth[d] < depth[e]
                  \/ depth[d] = depth[e] /\ html_count[d] >= html_count[e]}

\* merge_dir(src, site) with keep_dest, then rmtree(src) (script.py 94-146,
\* 220-227): a file below src goes to the same relative path below the site
\* root unless a file is there already, and what is left below src is
\* removed.
merge_dir(tree, src) ==
  LET below == {d \in {f[1] : f \in DOMAIN tree} :
                  d = src \/ StartsWith(d, src \o <<"/">>)}
      inside == {f \in DOMAIN tree : f[1] \in below}
      d == [f \in inside |->
              << (IF f[1] = src THEN <<>> ELSE From(f[1], Len(src) + 2)), f[2] >>]
      moved == {f \in inside : d[f] \notin DOMAIN tree /\ d[f][1] \notin below}
  IN [g \in ((DOMAIN tree) \ inside) \cup {d[f] : f \in moved} |->
        IF g \in DOMAIN tree THEN tree[g]
        ELSE tree[CHOOSE f \in moved : d[f] = g]]

\* The walk of prepare_site_structure (script.py 1135-1154): a directory
\* with a trash name is removed with all below it, and so is a file with a
\* trash extension.
remove_trash(tree) ==
  LET trash_dirs == { <<"a","n","a","l","y","t","i","c","s">>, <<"g","o","o","g","l","e","-","a","n","a","l","y","t","i","c","s">>, <<"t","a","g","m","a","n","a","g","e","r">>,
                      <<"w","w","w",".","g","o","o","g","l","e","t","a","g","m","a","n","a","g","e","r",".","c","o","m">>, <<"w","p","-","j","s","o","n">> }
      trash_exts == { <<".","a","s","p">>, <<".","j","s","p">> }
      keys == {f \in DOMAIN tree :
                 /\ f[1] = <<>> \/ \A k \in 1..Len(Split(f[1], "/")) :
                                     Lower(Split(f[1], "/")[k]) \notin trash_dirs
                 /\ \A e \in trash_exts : ~EndsWith(Lower(f[2]), e)}
  IN [f \in keys |-> tree[f]]

\* clean_code (script.py 1236-1306) on the element that carries the
\* reference: whether the element is still in the document afterwards.
clean_code_keeps(k, v) ==
  IF k = "script_src"
    THEN \A m \in { <<"w","e","b",".","a","r","c","h","i","v","e",".","o","r","g">>, <<"/","_","s","t","a","t","i","c","/">>, <<"W","a","y","b","a","c","k","M","a","c","h","i","n","e">>, <<"a","r","c","h","i","v","e",".","o","r","g">>,
                    <<"R","u","f","f","l","e","P","l","a","y","e","r">>, <<"d","a","t","a","L","a","y","e","r">>, <<"g","t","m","4","w","p","_","d","a","t","a","l","a","y","e","r","_","n","a","m","e">> } :
           ~Contains(v, m)
  ELSE IF k = "link_href"
    THEN \A m \in { <<"w","e","b",".","a","r","c","h","i","v","e",".","o","r","g">>, <<"/","_","s","t","a","t","i","c","/">> } : ~Contains(v, m)
  ELSE TRUE

\* Donor trees as copied to site/: the files of one content, the files of
\* another, and the markup files the tree has once it is flattened.
Scenarios ==
  << [paths |-> { <<"i","n","d","e","x",".","h","t","m","l">>, <<"s","t","y","l","e","s",".","c","s","s">>, <<"o","l","d","/","s","t","y","l","e","s"," ","(","1",")",".","c","s","s">> },
      other |-> { <<"m","a","i","n",".","c","s","s">> },
      markup |-> { <<"s","i","t","e","/","i","n","d","e","x",".","h","t","m","l">> }],
     [paths |-> { <<"i","n","d","e","x",".","h","t","m","l">>, <<"b","l","o","g","/","p","o","s","t","/","i","n","d","e","x",".","h","t","m","l">>, <<"b","l","o","g","/","p","o","s","t","/","i","m","a","g","e",".","p","n","g">> },
      other |-> {},
      markup |-> { <<"s","i","t","e","/","i","n","d","e","x",".","h","t","m","l">>, <<"s","i","t","e","/","b","l","o","g","/","p","o","s","t","/","i","n","d","e","x",".","h","t","m","l">> }],
     [paths |-> { <<"i","n","d","e","x",".","h","t","m","l">>, <<"w","p","-","j","s","o","n","/","x">>, <<"p","a","g","e",".","a","s","p">>, <<"x",".","j","s">> },
      other |-> {},
      markup |-> { <<"s","i","t","e","/","i","n","d","e","x",".","h","t","m","l">> }],
     [paths |-> { <<"p",".","h","t","m","l">> },
      other |-> { <<"m","a","i","n",".","c","s","s">> },
      markup |-> { <<"s","i","t","e","/","p",".","h","t","m","l">> }],
     [paths |-> { <<"h","t","/","i","n","d","e","x",".","h","t","m","l">>, <<"h","t","/","x",".","j","s">>, <<"x",".","j","s">> },
      other |-> {},
      markup |-> { <<"s","i","t","e","/","i","n","d","e","x",".","h","t","m","l">> }] >>

PipelineRefs ==
  { <<"o","l","d","/","s","t","y","l","e","s"," ","(","1",")",".","c","s","s","?","v","=","2">>, <<"s","t","y","l","e","s",".","c","s","s">>, <<"/","b","l","o","g","/","p","o","s","t","/","i","m","a","g","e",".","p","n","g">>,
    <<"h","t","t","p","s",":","/","/","s","i","t","e",".","e","x","a","m","p","l","e","/","b","l","o","g","/","p","o","s","t","/","i","m","a","g","e",".","p","n","g">>, <<"h","t","t","p","s",":","/","/","s","i","t","e",".","e","x","a","m","p","l","e","/","w","p","-","j","s","o","n","/","x">>,
    <<"h","t","t","p","s",":","/","/","s","i","t","e",".","e","x","a","m","p","l","e","/","p","a","g","e",".","a","s","p">>, <<"h","t","t","p","s",":","/","/","e","v","i","l",".","e","x","a","m","p","l","e","/","x",".","j","s">>, <<"x",".","j","s">> }

InitPipeline ==
  /\ \E s \in 1..Len(Scenarios) :
       /\ fs = [f \in DOMAIN TreeOf(Scenarios[s].paths \cup Scenarios[s].other) |->
                  IF PathJoin(f[1], f[2]) \in Scenarios[s].other THEN 2 ELSE 1]
       /\ kind \in MarkupKinds \cup
                    (IF <<"m","a","i","n",".","c","s","s">> \in Scenarios[s].other THEN CssKinds ELSE {})
       /\ file_path \in (IF kind \in MarkupKinds THEN Scenarios[s].markup ELSE CssFiles)
  /\ ref \in PipelineRefs
  /\ domain_full \in DomainInputs
  /\ donor = fs
  /\ maps = EmptyMaps
  /\ pc = "copied"
  /\ todo = {}
  /\ root = None
  /\ files = {}
  /\ dd_class = 0
  /\ dd_names = <<>>
  /\ seen = EmptyMap
  /\ run = 1
  /\ after_walk = EmptyMap
  /\ registered = {}
  /\ first_run = NoRun
  /\ file_map = EmptyMap
  /\ val0 = Directive(kind, ref)
  /\ val = val0
  /\ val_in = None
  /\ present = TRUE
  /\ rw_pc = "waiting"
  /\ stage = "flatten"
  /\ WaybackIdle /\ MinifyIdle /\ MinRunIdle /\ ResolveIdle /\ TextIdle

\* The flattening at startup (script.py 220-252), then the walk that moves
\* the assets starts (script.py 277).  A tree without a page-index file is
\* left as it is.
Flatten ==
  /\ stage = "flatten"
  /\ \E r \in find_domain_root(fs) :
       StartWalk(IF r = None \/ r = <<>> THEN fs ELSE merge_dir(fs, r))
  /\ stage' = "assets"
  /\ UNCHANGED <<run, donor, first_run>>
  /\ UNCHANGED <<varsWayback, varsMinRun, varsResolve, varsText, varsRewrite, varsMinify>>

\* The consolidation is over: image optimisation and the externalising of
\* inline styles leave the reference alone, and the first rewriting pass
\* starts (script.py 420-581, 737, 1112).
StartRewriting ==
  /\ stage = "assets" /\ pc = "consolidated"
  /\ stage' = "rewrite"
  /\ rw_pc' = (IF kind \in MarkupKinds THEN "srcset" ELSE "css_import")
  /\ UNCHANGED <<fs, maps, domain_full, file_map, kind, file_path, ref, val0,
                 val_in, val, present>>
  /\ UNCHANGED <<varsWayback, varsMinRun, varsResolve, varsText, varsMinify, pc, todo, root, files, dd_class,
                 dd_names, seen, run, donor, after_walk, registered, first_run>>

\* prepare_site_structure("site") (script.py 1127-1158).  The RuntimeError
\* it raises when no directory holds a page-index file is caught nowhere.
PrepareSiteStructure ==
  /\ stage = "rewrite" /\ rw_pc = "done"
  /\ \E r \in find_domain_root(fs) :
       IF r = None
         THEN fs' = fs /\ stage' = "aborted"
         ELSE /\ fs' = remove_trash(IF r = <<>> THEN fs ELSE merge_dir(fs, r))
              /\ stage' = "prepared"
  /\ UNCHANGED <<maps, varsWayback, varsMinRun, varsResolve, varsText, varsMinify, domain_full, file_map, kind,
                 file_path, ref, val0, val_in, val, present, rw_pc>>
  /\ UNCHANGED <<pc, todo, root, files, dd_class, dd_names, seen, run, donor,
                 after_walk, registered, first_run>>

\* generate_robots_and_sitemap and clean_all_html_in_site (script.py
\* 1182-1340); the latter reads files named *.html only.
CleanAllHtml ==
  /\ stage = "prepared"
  /\ fs' = Put(Put(fs, << <<>>, <<"r","o","b","o","t","s",".","t","x","t">> >>, 1), << <<>>, <<"s","i","t","e","m","a","p",".","x","m","l">> >>, 1)
  /\ present' = (present /\ (EndsWith(Lower(file_path), <<".","h","t","m","l">>)
                               => clean_code_keeps(kind, val)))
  /\ stage' = "cleaned"
  /\ UNCHANGED <<maps, varsWayback, varsMinRun, varsResolve, varsText, varsMinify, domain_full, file_map, kind,
                 file_path, ref, val0, val_in, val, rw_pc>>
  /\ UNCHANGED <<pc, todo, root, files, dd_class, dd_names, seen, run, donor,
                 after_walk, registered, first_run>>

\* run_minification(site_abs) (script.py 1493): the last stage.
RunMinification ==
  /\ stage = "cleaned"
  /\ stage' = "finished"
  /\ UNCHANGED <<varsAssets, varsWayback, varsMinRun, varsResolve, varsText, varsRewrite, varsMinify>>

NextPipeline ==
  \/ Flatten
  \/ WalkSkipAssets
  \/ WalkEnter
  \/ WalkMoveAsset
  \/ WalkOtherFile
  \/ DedupeStart
  \/ DedupeKeep
  \/ DedupeRemove
  \/ DedupeNextClass
  \/ DedupeDone
  \/ StartRewriting
  \/ RewriteSrcsetCall
  \/ ProcessResourcesInHtml
  \/ BuildFileMap
  \/ RewriteAttr
  \/ ProcessHtmlFile
  \/ CssReplImport
  \/ CssReplUrl
  \/ PrepareSiteStructure
  \/ CleanAllHtml
  \/ RunMinification

SpecPipeline == InitPipeline /\ [][NextPipeline]_vars

(***************************************************************************)
(* Properties of the run as a whole                                        *)
(***************************************************************************)

\* The file of the site a reference of a markup file names: the reference
\* without query and fragment, taken from the directory of the file.
NamedFile(from_file, v) ==
  norm_slashes(relpath(os_path_join(dirname(from_file),
                                    Before(Before(v, <<"#">>), <<"?">>)),
                       SiteDir))

InTree(tree, p) == <<dirname(p), basename(p)>> \in DOMAIN tree

DuplicatePair == { <<"s","t","y","l","e","s",".","c","s","s">>, <<"s","t","y","l","e","s"," ","(","1",")",".","c","s","s">> }
DuplicateRef == <<"o","l","d","/","s","t","y","l","e","s"," ","(","1",")",".","c","s","s","?","v","=","2">>
CssDir == Classes[2].dir

\* The donor holds styles.css and 'styles (1).css' with the same bytes and a
\* markup file links the stylesheet as old/styles (1).css?v=2.
DuplicateCase ==
  /\ kind = "link_href" /\ ref = DuplicateRef
  /\ InTree(donor, <<"s","t","y","l","e","s",".","c","s","s">>) /\ InTree(donor, <<"o","l","d","/","s","t","y","l","e","s"," ","(","1",")",".","c","s","s">>)
  /\ donor[<< <<>>, <<"s","t","y","l","e","s",".","c","s","s">> >>] = donor[<< <<"o","l","d">>, <<"s","t","y","l","e","s"," ","(","1",")",".","c","s","s">> >>]

\* C11: with styles.css and 'styles (1).css' of identical bytes in the donor
\* and a markup href of old/styles (1).css?v=2, at the end of the run exactly
\* one of the two files is in assets/css and the href, taken from the
\* directory of the markup file, names that survivor.
C11_HrefNamesSurvivor ==
  (stage = "finished" /\ DuplicateCase) =>
    /\ Cardinality({n \in DuplicatePair : InTree(fs, PathJoin(CssDir, n))}) = 1
    /\ present
    /\ \E n \in DuplicatePair :
         /\ InTree(fs, PathJoin(CssDir, n))
         /\ NamedFile(file_path, val) = PathJoin(CssDir, n)

\* The markup file blog/post/index.html refers to /blog/post/image.png, a
\* file of the donor next to it.
SameDirectoryCase ==
  /\ kind \in {"a_href", "img_src"}
  /\ file_path = <<"s","i","t","e","/","b","l","o","g","/","p","o","s","t","/","i","n","d","e","x",".","h","t","m","l">>
  /\ ref = <<"/","b","l","o","g","/","p","o","s","t","/","i","m","a","g","e",".","p","n","g">>
  /\ InTree(donor, <<"b","l","o","g","/","p","o","s","t","/","i","m","a","g","e",".","p","n","g">>)

\* C12: for the markup file blog/post/index.html whose attribute refers to
\* /blog/post/image.png, a file of the tree in the same directory, the value
\* after the rewriting passes is image.png, without directory part and
\* without '../'.
C12_SameDirectoryBareName ==
  (stage = "rewrite" /\ rw_pc = "done" /\ SameDirectoryCase) => val = <<"i","m","a","g","e",".","p","n","g">>

\* C13: at the end of the run, a src/href value that a rewriting pass has
\* changed is a path relative to the directory of its markup file, and the
\* path names a file of the output tree.
C13_RewrittenLinksResolve ==
  (stage = "finished" /\ kind \in MarkupKinds /\ present /\ val # val0) =>
    /\ ~StartsWith(val, <<"/">>) /\ ~Contains(val, <<":","/","/">>)
    /\ InTree(fs, NamedFile(file_path, val))

\* C15: once the startup check has passed, no failure of a later stage, a
\* tree without a page-index file among them, aborts the run: the run is
\* never ended before run_minification.
C15_NoLateAbort == stage # "aborted"

\* C16: the asset move walk and the four dedupe_folder calls are over when
\* the File Index is built, the File Index is built before a reference of a
\* markup file is rewritten by any pass, and run_minification starts only
\* when every rewriting pass is over.
C16_StageOrder ==
  [][ /\ file_map' # file_map => pc = "consolidated"
      /\ (kind \in MarkupKinds /\ val' # val) => file_map # EmptyMap
      /\ (stage # "finished" /\ stage' = "finished") => rw_pc = "done" ]_vars

(***************************************************************************)
(* run_minification: the loop over the files of the site                   *)
(***************************************************************************)

\* The files run_minification hands to minify_code (script.py 1470-1475).
eligible(fname) ==
  /\ Lower(splitext(fname)) \in { <<".","h","t","m","l">>, <<".","h","t","m">>, <<".","c","s","s">>, <<".","j","s">> }
  /\ ~EndsWith(Lower(fname), <<".","m","i","n",".","c","s","s">>)
  /\ ~EndsWith(Lower(fname), <<".","m","i","n",".","j","s">>)

\* minify_code(content, "css") (script.py 1455-1464)
minify_code_css(content) == normalize_blank(_strip_css_comments_keep_licenses(content))

\* The test that guards the rewriting of a file (script.py 1482).
is_rewritten(original) ==
  Bind(minify_code_css(original), LAMBDA minimized :
    minimized # original /\ minimized # <<>>)

\* Stylesheet texts: one that minify_code leaves alone, two it shortens, one
\* it empties.
MinRunTexts ==
  { <<"a","{","}">>, <<"/","*"," ","c"," ","*","/","a","{","}">>, <<"/","*","!"," ","l"," ","*","/","/","*"," ","c"," ","*","/","b","{","}">>, <<"/","*"," ","c"," ","*","/">> }
MinRunSheets == { <<"a","s","s","e","t","s","/","c","s","s","/","a",".","c","s","s">>, <<"a","s","s","e","t","s","/","c","s","s","/","b",".","c","s","s">> }
MinRunOthers == { <<"a","s","s","e","t","s","/","c","s","s","/","c",".","m","i","n",".","c","s","s">>, <<"a","s","s","e","t","s","/","i","m","a","g","e","s","/","d",".","p","n","g">> }

InitMinRun ==
  /\ \E t \in [MinRunSheets -> MinRunTexts] :
       mr_tree = [p \in MinRunSheets \cup MinRunOthers |->
                    IF p \in MinRunSheets THEN t[p] ELSE <<"/","*"," ","c"," ","*","/">>]
  /\ mr_before = mr_tree
  /\ mr_left = DOMAIN mr_tree
  /\ mr_faults = EmptyMap
  /\ mr_warned = {}
  /\ AssetsIdle /\ WaybackIdle /\ RewriteIdle /\ MinifyIdle /\ RunIdle /\ ResolveIdle /\ TextIdle

\* A file the loop passes over (`continue`, script.py 1471-1475).
MinRunSkip ==
  /\ \E p \in mr_left :
       /\ ~eligible(basename(p))
       /\ mr_left' = mr_left \ {p}
  /\ UNCHANGED <<mr_tree, mr_before, mr_faults, mr_warned>>
  /\ UNCHANGED varsNotMinRun

\* A file handled without an exception (script.py 1478-1487): it is
\* rewritten when the minified text differs and is not empty.
MinRunFile ==
  /\ \E p \in mr_left :
       /\ eligible(basename(p))
       /\ mr_left' = mr_left \ {p}
       /\ mr_faults' = Put(mr_faults, p, "none")
       /\ mr_tree' = (IF is_rewritten(mr_tree[p])
                         THEN Put(mr_tree, p, minify_code_css(mr_tree[p]))
                         ELSE mr_tree)
  /\ UNCHANGED <<mr_before, mr_warned>>
  /\ UNCHANGED varsNotMinRun

\* open(fpath, "r"), f.read(), minify_code or open(fpath, "w") raises: the
\* except clause logs and the loop goes on (script.py 1488-1489).  The last
\* can happen only when the file would be rewritten.
MinRunRaisesBeforeWrite ==
  /\ \E p \in mr_left, what \in {"read", "minify", "open_w"} :
       /\ eligible(basename(p))
       /\ what = "open_w" => is_rewritten(mr_tree[p])
       /\ mr_left' = mr_left \ {p}
       /\ mr_faults' = Put(mr_faults, p, what)
       /\ mr_warned' = mr_warned \cup {p}
  /\ UNCHANGED <<mr_tree, mr_before>>
  /\ UNCHANGED varsNotMinRun

\* f.write(minimized), or the flush when the with block closes the file,
\* raises (script.py 1484-1485): open(fpath, "w") has emptied the file by
\* then, and what reached it is some proper prefix of the minified text.
MinRunWriteRaises ==
  /\ \E p \in mr_left :
       /\ eligible(basename(p))
       /\ is_rewritten(mr_tree[p])
       /\ \E n \in 0..(Len(minify_code_css(mr_tree[p])) - 1) :
            mr_tree' = Put(mr_tree, p, Sub(minify_code_css(mr_tree[p]), 1, n))
       /\ mr_left' = mr_left \ {p}
       /\ mr_faults' = Put(mr_faults, p, "write")
       /\ mr_warned' = mr_warned \cup {p}
  /\ UNCHANGED mr_before
  /\ UNCHANGED varsNotMinRun

NextMinRun ==
  \/ MinRunSkip
  \/ MinRunFile
  \/ MinRunRaisesBeforeWrite
  \/ MinRunWriteRaises

SpecMinRun == InitMinRun /\ [][NextMinRun]_vars

\* C14: in run_minification, when reading, minifying or writing a file
\* raises, the content of that file stays what it was, the error is logged,
\* and every other eligible file is still handled.
C14_FaultsIsolated ==
  /\ \A p \in DOMAIN mr_faults :
       mr_faults[p] # "none" => (mr_tree[p] = mr_before[p] /\ p \in mr_warned)
  /\ mr_left = {} => \A p \in DOMAIN mr_before : eligible(basename(p)) => p \in DOMAIN mr_faults

(***************************************************************************)
(* resolve_local_target, statement by statement, and rewrite_attr on the   *)
(* same path                                                               *)
(***************************************************************************)

MaxIndexed == 3

\* Cleaned paths as clean_root_path yields them.
ResolvePaths ==
  { <<>>, <<"x">>, <<"X">>, <<"x",".","h","t","m","l">>, <<"v","1",".","2">>, <<"a","/","x">>, <<"a","/","b","/","x">>, <<"a","/","b","/","c","/","x">>, <<"a","/","x",".","j","s">>, <<"a","/","b","/","x",".","j","s">> }

\* Keys of the File Index: lower-case paths of files.
ResolveKeys ==
  { <<"x">>, <<"x","/","i","n","d","e","x",".","h","t","m","l">>, <<"x",".","h","t","m","l">>, <<"v","1",".","2","/","i","n","d","e","x",".","h","t","m","l">>, <<"v","1",".","2",".","h","t","m","l">>, <<"c","/","x",".","h","t","m","l">>,
    <<"b","/","c","/","x">>, <<"a","/","x",".","j","s">>, <<"x",".","j","s">>, <<"a","/","x",".","j","s",".","h","t","m","l">>, <<"b","/","x",".","j","s","/","i","n","d","e","x",".","h","t","m","l">> }

\* No key is a directory of another: the keys are files of one tree.
IsFileSet(S) == \A p, q \in S : ~StartsWith(q, p \o <<"/">>)

ResolveDomain == <<"h","t","t","p","s",":","/","/","s","i","t","e",".","e","x","a","m","p","l","e">>
ResolveFrom == <<"s","i","t","e","/","i","n","d","e","x",".","h","t","m","l">>

\* A loop that ignores MAX_STRIP_PREFIX_SEGMENTS.
last_cut_unbounded(parts) == Len(parts)

\* The last value of cut: min(MAX_STRIP_PREFIX_SEGMENTS, len(parts))
\* (script.py 651).
last_cut(parts) ==
  IF MAX_STRIP_PREFIX_SEGMENTS < Len(parts) THEN MAX_STRIP_PREFIX_SEGMENTS ELSE Len(parts)

InitResolve ==
  /\ rs_path \in ResolvePaths
  /\ \E S \in SUBSET ResolveKeys :
       /\ Cardinality(S) <= MaxIndexed /\ IsFileSet(S)
       /\ rs_map = [k \in S |-> k]
  /\ rs_pc = "full"
  /\ rs_cut = 0
  /\ rs_tried = <<>>
  /\ rs_hits = <<>>
  /\ rs_hit = None
  /\ rs_out = None
  /\ AssetsIdle /\ WaybackIdle /\ RewriteIdle /\ MinifyIdle /\ RunIdle /\ MinRunIdle /\ TextIdle

\* hit = try_variants_in_map(rel_path, file_map) (script.py 646-648)
ResolveFull ==
  /\ rs_pc = "full"
  /\ rs_tried' = <<rs_path>>
  /\ rs_hits' = <<try_variants_in_map(rs_path, rs_map)>>
  /\ IF try_variants_in_map(rs_path, rs_map) # None
       THEN /\ rs_hit' = try_variants_in_map(rs_path, rs_map)
            /\ rs_pc' = "returned"
            /\ UNCHANGED rs_cut
       ELSE /\ rs_cut' = 1
            /\ rs_pc' = "loop"
            /\ UNCHANGED rs_hit
  /\ UNCHANGED <<rs_path, rs_map, rs_out>>
  /\ UNCHANGED varsNotResolve

\* One turn of the loop over cut (script.py 650-655)
ResolveStrip ==
  /\ rs_pc = "loop"
  /\ LET parts == SelectSeq(Split(rs_path, "/"), NonEmpty)
         candidate == Join(Sub(parts, rs_cut + 1, Len(parts)), "/")
     IN /\ rs_cut <= last_cut(parts)
        /\ rs_tried' = Append(rs_tried, candidate)
        /\ rs_hits' = Append(rs_hits, try_variants_in_map(candidate, rs_map))
        /\ IF try_variants_in_map(candidate, rs_map) # None
             THEN /\ rs_hit' = try_variants_in_map(candidate, rs_map)
                  /\ rs_pc' = "returned"
                  /\ UNCHANGED rs_cut
             ELSE /\ rs_cut' = rs_cut + 1
                  /\ UNCHANGED <<rs_hit, rs_pc>>
  /\ UNCHANGED <<rs_path, rs_map, rs_out>>
  /\ UNCHANGED varsNotResolve

\* The range is exhausted: return None (script.py 657)
ResolveExhausted ==
  /\ rs_pc = "loop"
  /\ LET parts == SelectSeq(Split(rs_path, "/"), NonEmpty)
     IN rs_cut > last_cut(parts)
  /\ rs_hit' = None
  /\ rs_pc' = "returned"
  /\ UNCHANGED <<rs_path, rs_map, rs_cut, rs_tried, rs_hits, rs_out>>
  /\ UNCHANGED varsNotResolve

\* rewrite_attr on an attribute of site/index.html that holds the domain
\* followed by the path (script.py 846-886)
RewriteAttrOnPath ==
  /\ rs_pc = "returned"
  /\ rs_out' = rewrite_attr(ResolveFrom, ResolveDomain \o <<"/">> \o rs_path,
                            ResolveDomain, rs_map)
  /\ rs_pc' = "done"
  /\ UNCHANGED <<rs_path, rs_map, rs_cut, rs_tried, rs_hits, rs_hit>>
  /\ UNCHANGED varsNotResolve

NextResolve ==
  \/ ResolveFull
  \/ ResolveStrip
  \/ ResolveExhausted
  \/ RewriteAttrOnPath

SpecResolve == InitResolve /\ [][NextResolve]_vars

\* The candidates of the cascade for a path p, in order: p, p + index.html
\* when p ends in "/", p + /index.html when the last segment of p has no
\* ".", p + .html when p does not end in .html.
CascadeCandidates(p) ==
  <<p>>
  \o (IF p # <<>> /\ p[Len(p)] = "/" THEN <<p \o <<"i","n","d","e","x",".","h","t","m","l">>>> ELSE <<>>)
  \o (IF \A k \in (RFind(p, <<"/">>) + 1)..Len(p) : p[k] # "."
        THEN <<p \o <<"/","i","n","d","e","x",".","h","t","m","l">>>> ELSE <<>>)
  \o (IF Len(p) < 5 \/ Sub(p, Len(p) - 4, Len(p)) # <<".","h","t","m","l">>
        THEN <<p \o <<".","h","t","m","l">>>> ELSE <<>>)

\* The first element of a sequence that is in S, None when none is.
FirstPresent(c, S) ==
  IF \E k \in 1..Len(c) : c[k] \in S
    THEN c[CHOOSE k \in 1..Len(c) : c[k] \in S /\ \A j \in 1..(k - 1) : c[j] \notin S]
    ELSE None

WithoutSegments(p, n) ==
  Bind(SelectSeq(Split(p, "/"), NonEmpty), LAMBDA parts :
    Join(Sub(parts, n + 1, Len(parts)), "/"))

\* C19: resolve_local_target ends after at most 1 + MAX_STRIP_PREFIX_SEGMENTS
\* = 3 runs of the cascade: on the full path, then on the path without its
\* first segment, then without its first two; it returns the first hit, and
\* a path that only matches with three or more leading segments removed is
\* unresolved.
C19_StripBounded ==
  /\ Len(rs_tried) <= 3
  /\ \A k \in 1..Len(rs_tried) :
       /\ rs_tried[k] = (IF k = 1 THEN rs_path ELSE WithoutSegments(rs_path, k - 1))
       /\ k < Len(rs_tried) => rs_hits[k] = None
  /\ rs_pc \in {"returned", "done"} =>
       /\ rs_hit = rs_hits[Len(rs_hits)]
       /\ rs_hit = None =>
            Len(rs_tried) = 1 + (IF Len(SelectSeq(Split(rs_path, "/"), NonEmpty)) < 2
                                   THEN Len(SelectSeq(Split(rs_path, "/"), NonEmpty))
                                   ELSE 2)

\* C19, its case: the path a/b/c/x, which matches only with three segments
\* removed (x/index.html is indexed), has been given up after three runs.
C19_Witness ==
  /\ rs_pc = "returned" /\ rs_path = <<"a","/","b","/","c","/","x">>
  /\ DOMAIN rs_map = { <<"x","/","i","n","d","e","x",".","h","t","m","l">> }
  /\ Len(rs_tried) = 3 /\ rs_hit = None

\* C20: in rewrite_attr, a cleaned path with an extension of RESOURCE_EXTS
\* resolves to that very path, when it is in the File Index, or to
\* nothing: the attribute is left as it was, and no index.html, .html or
\* prefix-stripped variant is taken.
C20_ResourceShortcut ==
  (rs_pc = "done" /\ \E e \in RESOURCE_EXTS : EndsWith(Lower(rs_path), e)) =>
    \/ rs_out = ResolveDomain \o <<"/">> \o rs_path
    \/ rs_out = rs_path /\ rs_path \in DOMAIN rs_map

\* C20, its case: a/x.js is not indexed while x.js, which dropping the first
\* segment would give, is; rewrite_attr has left the attribute as it was.
C20_Witness ==
  /\ rs_pc = "done" /\ rs_path = <<"a","/","x",".","j","s">>
  /\ <<"x",".","j","s">> \in DOMAIN rs_map /\ <<"a","/","x",".","j","s">> \notin DOMAIN rs_map
  /\ rs_out = ResolveDomain \o <<"/">> \o rs_path

(***************************************************************************)
(* The same statements on a File Index of files with upper-case letters    *)
(***************************************************************************)

\* Files of a site as they are spelled on disk.
CaseFiles == { <<"A","b","o","u","t",".","h","t","m","l">>, <<"i","m","g","/","L","o","g","o",".","P","N","G">>, <<"i","n","d","e","x",".","h","t","m","l">>, <<"D","o","c","s","/","i","n","d","e","x",".","h","t","m","l">>, <<"x",".","h","t","m","l">> }

\* Cleaned paths of references to them.
CaseRefs ==
  { <<"A","b","o","u","t",".","h","t","m","l">>, <<"a","b","o","u","t",".","h","t","m","l">>, <<"A","B","O","U","T",".","H","T","M","L">>, <<"A","b","o","u","t">>, <<"a","b","o","u","t">>, <<"i","m","g","/","L","o","g","o",".","P","N","G">>,
    <<"i","m","g","/","l","o","g","o",".","p","n","g">>, <<"i","n","d","e","x",".","h","t","m","l">>, <<"D","o","c","s">>, <<"d","o","c","s">>, <<"x",".","h","t","m","l">>, <<"o","l","d","/","x",".","h","t","m","l">>,
    <<"o","l","d","/","a","/","A","b","o","u","t",".","h","t","m","l">>, <<"o","l","d","/","a","/","b","/","g","o","n","e">> }

InitCase ==
  /\ rs_path \in CaseRefs
  /\ \E S \in SUBSET CaseFiles :
       /\ Cardinality(S) <= MaxIndexed
       /\ rs_map \in build_file_map(TreeOf(S))
  /\ rs_pc = "full"
  /\ rs_cut = 0
  /\ rs_tried = <<>>
  /\ rs_hits = <<>>
  /\ rs_hit = None
  /\ rs_out = None
  /\ AssetsIdle /\ WaybackIdle /\ RewriteIdle /\ MinifyIdle /\ RunIdle /\ MinRunIdle /\ TextIdle

SpecCase == InitCase /\ [][NextResolve]_vars

\* C23: a reference whose cleaned path is the relative path of an indexed
\* file up to letter case resolves to that file as it is spelled on disk, and
\* whatever the resolver returns is the path of an indexed file.
C23_RealPaths ==
  rs_pc = "done" =>
    /\ \A k \in DOMAIN rs_map :
         Lower(rs_path) = k => rs_out = make_relative(ResolveFrom, rs_map[k])
    /\ rs_hit # None => rs_hit \in {rs_map[k] : k \in DOMAIN rs_map}

(***************************************************************************)
(* Text functions called on one value: rewrite_srcset                       *)
(***************************************************************************)

\* str.split() without an argument: the maximal runs of non-whitespace.
RECURSIVE split_ws(_)
split_ws(s) ==
  IF \A k \in 1..Len(s) : s[k] \in StrSpace THEN <<>>
  ELSE LET a == CHOOSE k \in 1..Len(s) : s[k] \notin StrSpace /\ \A j \in 1..(k - 1) : s[j] \in StrSpace
           rest == From(s, a)
           e == IF \E k \in 1..Len(rest) : rest[k] \in StrSpace
                  THEN (CHOOSE k \in 1..Len(rest) : rest[k] \in StrSpace /\ \A j \in 1..(k - 1) : rest[j] \notin StrSpace) - 1
                  ELSE Len(rest)
       IN <<Sub(rest, 1, e)>> \o split_ws(From(rest, e + 1))

\* sep.join(parts) for a separator of any length.
RECURSIVE JoinSeq(_, _)
JoinSeq(parts, sep) ==
  IF parts = <<>> THEN <<>>
  ELSE IF Len(parts) = 1 THEN parts[1]
  ELSE parts[1] \o sep \o JoinSeq(Tail(parts), sep)

\* One pass of the loop of rewrite_srcset over a non-empty part: the text
\* appended to new_parts.
srcset_part(file_path0, part0, img_map0) ==
  Strict3(LAMBDA from_file, part, img_map :
    Bind(split_ws(part), LAMBDA segments :
    Bind(Lower(unquote(basename(segments[1]))), LAMBDA clean_low :
      StripChars((IF clean_low \in DOMAIN img_map
                    THEN make_relative(from_file, img_map[clean_low])
                    ELSE segments[1])
                 \o <<" ">> \o Join(Tail(segments), " "), StrSpace))),
    file_path0, part0, img_map0)

\* rewrite_srcset(tag, img_map, file_path): the value left in tag["srcset"].
rewrite_srcset(from_file, srcset_val, img_map) ==
  LET parts == Split(srcset_val, ",")
      kept == SelectSeq(parts, LAMBDA p : StripChars(p, StrSpace) # <<>>)
  IN JoinSeq([k \in 1..Len(kept) |-> srcset_part(from_file, kept[k], img_map)], <<","," ">>)

\* --- inputs ---

\* The most candidates a srcset value of the model holds.
MaxCands == 2

SrcsetUrls == { <<"a",".","p","n","g">>, <<"i","m","g","/","a",".","p","n","g">>, <<"b",".","p","n","g">>, <<"m","y","%","2","0","p","i","c",".","p","n","g">> }
SrcsetSizes == { <<>>, <<" ","1","x">>, <<" ","2","x">>, <<" "," ","4","8","0","w">> }
SrcsetSeps == { <<",">>, <<","," ">> }
SrcsetTails == { <<>>, <<",">> }

\* The srcset values of the model: up to MaxCands candidates.
RECURSIVE SrcsetValues(_)
SrcsetValues(n) ==
  LET one == {u \o d : u \in SrcsetUrls, d \in SrcsetSizes}
  IN IF n = 1 THEN one
     ELSE one \cup {v \o s \o c : v \in SrcsetValues(n - 1), s \in SrcsetSeps, c \in one}

\* The Resource Table copy_assets leaves for two pictures of the donor.
SrcsetTable ==
  map_put(map_put(EmptyMap, <<"a",".","p","n","g">>, <<"a","s","s","e","t","s","/","i","m","a","g","e","s","/","a",".","p","n","g">>),
          <<"m","y"," ","p","i","c",".","p","n","g">>, <<"a","s","s","e","t","s","/","i","m","a","g","e","s","/","m","y"," ","p","i","c",".","p","n","g">>)

SrcsetFiles == { <<"s","i","t","e","/","i","n","d","e","x",".","h","t","m","l">>, <<"s","i","t","e","/","b","l","o","g","/","p","o","s","t",".","h","t","m","l">> }

InitSrcset ==
  /\ tx_fn = "rewrite_srcset"
  /\ tx_from \in SrcsetFiles
  /\ tx_in \in {v \o t : v \in SrcsetValues(MaxCands), t \in SrcsetTails}
  /\ tx_map = SrcsetTable
  /\ tx_out = None /\ tx_again = None
  /\ tx_pc = "call"
  /\ AssetsIdle /\ WaybackIdle /\ RewriteIdle /\ MinifyIdle /\ RunIdle /\ MinRunIdle
  /\ ResolveIdle

\* rewrite_srcset on an img element that has a srcset attribute.
RewriteSrcset ==
  /\ tx_fn = "rewrite_srcset" /\ tx_pc = "call"
  /\ tx_out' = rewrite_srcset(tx_from, tx_in, tx_map)
  /\ tx_pc' = "done"
  /\ UNCHANGED <<tx_fn, tx_from, tx_in, tx_map, tx_again>>
  /\ UNCHANGED varsNotText

NextSrcset == RewriteSrcset

SpecSrcset == InitSrcset /\ [][NextSrcset]_vars

\* The candidates of a srcset value: the non-empty comma-separated pieces,
\* each a URL and the descriptor words that follow it.
Candidates(v) ==
  LET kept == SelectSeq(Split(v, ","), LAMBDA p : StripChars(p, StrSpace) # <<>>)
  IN [k \in 1..Len(kept) |->
        Bind(split_ws(kept[k]), LAMBDA segments :
          [url |-> segments[1], size |-> Tail(segments)])]

\* The URLs rewrite_srcset may leave for a candidate URL: the URL itself or
\* the relative path of its Resource Table entry.
AllowedUrls(from_file, url, img_map) ==
  {url} \cup {make_relative(from_file, img_map[k]) :
                k \in {Lower(unquote(basename(url)))} \cap DOMAIN img_map}

\* C21: rewrite_srcset leaves as many candidates as the value had, in the
\* same order, each with its descriptor and with its URL kept or replaced by
\* the relative path of its Resource Table entry, and a candidate comes out
\* as it does when it is the only one.
C21_SrcsetStructure ==
  (tx_fn = "rewrite_srcset" /\ tx_pc = "done") =>
    LET cin == Candidates(tx_in)
        cout == Candidates(tx_out)
    IN /\ Len(cout) = Len(cin)
       /\ \A k \in 1..Len(cin) :
            /\ k <= Len(cout)
            /\ cout[k].size = cin[k].size
            /\ cout[k].url \in AllowedUrls(tx_from, cin[k].url, tx_map)
            /\ <<cout[k]>> = Candidates(rewrite_srcset(tx_from,
                   cin[k].url \o <<" ">> \o Join(cin[k].size, " "), tx_map))

(***************************************************************************)
(* _strip_html_comments_but_keep_conditionals                              *)
(***************************************************************************)

\* \w of the pattern language, for ASCII.
IsWordChar(c) == IsLetter(c) \/ IsDigit(c) \/ c = "_"

\* Whether \s*\[if\b (IGNORECASE) matches at the index q.
IfAhead(html0, q0) ==
  Strict2(LAMBDA html, q :
    Bind(FirstOf(html, Chars \ StrSpace, q), LAMBDA b :
      /\ b + 2 <= Len(html)
      /\ Lower(Sub(html, b, b + 2)) = <<"[","i","f">>
      /\ (b + 3 <= Len(html) => ~IsWordChar(html[b + 3]))),
    html0, q0)

\* Where <!--(?!\s*\[if\b).*?--> (DOTALL) matches first at or after the
\* index i, 0 when it does not match.
HtmlCommentStart(html0, i0) ==
  Strict2(LAMBDA html, i :
    Bind({p \in i..(Len(html) - 6) :
            /\ OccursAt(html, <<"<","!","-","-">>, p)
            /\ ~IfAhead(html, p + 4)
            /\ FindFrom(html, <<"-","-",">">>, p + 4) # 0}, LAMBDA starts :
      IF starts = {} THEN 0 ELSE CHOOSE p \in starts : \A q \in starts : p <= q),
    html0, i0)

\* _strip_html_comments_but_keep_conditionals: the re.sub from the index i on.
RECURSIVE strip_html_from(_, _)
strip_html_match(html, i, p) ==
  IF p = 0 THEN From(html, i)
  ELSE Sub(html, i, p - 1) \o strip_html_from(html, FindFrom(html, <<"-","-",">">>, p + 4) + 3)
strip_html_from(html, i) == Strict3(strip_html_match, html, i, HtmlCommentStart(html, i))

_strip_html_comments_but_keep_conditionals(html) == Strict2(strip_html_from, html, 1)

\* --- inputs ---

\* The most pieces a markup text of the model is made of.
MaxPieces == 5

HtmlPieces ==
  { <<"<","!","-","-">>, <<"-","-",">">>, <<"<","!","-","-","[","i","f"," ","!","I","E","]",">">>, <<"<","!","-","-","[","I","F"," ","I","E","]",">">>, <<"<","!","-","-",">">>, <<"<","!","[","e","n","d","i","f","]","-","-",">">>, <<"x">> }

\* The texts made of at most n of the pieces.
RECURSIVE Texts(_, _)
Texts(pieces, n) ==
  IF n = 0 THEN {<<>>}
  ELSE Texts(pieces, n - 1) \cup {t \o p : t \in Texts(pieces, n - 1), p \in pieces}

InitComments ==
  /\ tx_fn = "_strip_html_comments_but_keep_conditionals"
  /\ tx_from = <<>>
  /\ tx_in \in Texts(HtmlPieces, MaxPieces)
  /\ tx_map = EmptyMap
  /\ tx_out = None /\ tx_again = None
  /\ tx_pc = "call"
  /\ AssetsIdle /\ WaybackIdle /\ RewriteIdle /\ MinifyIdle /\ RunIdle /\ MinRunIdle
  /\ ResolveIdle

\* _strip_html_comments_but_keep_conditionals(content)
StripHtmlComments ==
  /\ tx_fn = "_strip_html_comments_but_keep_conditionals" /\ tx_pc = "call"
  /\ tx_out' = _strip_html_comments_but_keep_conditionals(tx_in)
  /\ tx_pc' = "done"
  /\ UNCHANGED <<tx_fn, tx_from, tx_in, tx_map, tx_again>>
  /\ UNCHANGED varsNotText

NextComments == StripHtmlComments

SpecComments == InitComments /\ [][NextComments]_vars

\* A markup text from the index i on with every comment removed whose body
\* does not begin with "[if".  A comment runs from "<!--" to the first "-->"
\* after it; a "<!--" that no "-->" follows opens no comment.
RECURSIVE KeepConditionals(_, _)
KeepConditionals(html, i) ==
  LET p == FindFrom(html, <<"<","!","-","-">>, i)
      e == IF p = 0 THEN 0 ELSE FindFrom(html, <<"-","-",">">>, p + 4)
  IN IF e = 0 THEN From(html, i)
     ELSE Sub(html, i, p - 1)
            \o (IF Lower(Sub(html, p + 4, p + 6)) = <<"[","i","f">> THEN Sub(html, p, e + 2) ELSE <<>>)
            \o KeepConditionals(html, e + 3)

\* C22: the output of _strip_html_comments_but_keep_conditionals is the
\* markup text with every comment whose body begins with "[if" (in any
\* letter case) and all text outside comments kept verbatim, and every other
\* comment removed.
C22_ConditionalsKept ==
  (tx_fn = "_strip_html_comments_but_keep_conditionals" /\ tx_pc = "done") =>
    tx_out = KeepConditionals(tx_in, 1)

(***************************************************************************)
(* minify_code applied twice                                               *)
(***************************************************************************)

\* minify_code(content, filetype) for the file types html and css.
minify_code(content, filetype) ==
  normalize_blank(IF filetype = "html" THEN _strip_html_comments_but_keep_conditionals(content)
                  ELSE _strip_css_comments_keep_licenses(content))

\* kind of run_minification, from the file name.
kind_of(fname) == IF EndsWith(Lower(fname), <<".","c","s","s">>) THEN "css" ELSE "html"

MinifyPieces == { <<"a">>, <<"\n">>, <<" ", "\n">>, <<"<","!","-","-","c","-","-",">">>, <<"/","*","c","*","/">> }

MinifyFiles == { <<"i","n","d","e","x",".","h","t","m","l">>, <<"m","a","i","n",".","c","s","s">> }

InitTwice ==
  /\ tx_fn = "minify_code"
  /\ tx_from \in MinifyFiles
  /\ tx_in \in Texts(MinifyPieces, MaxPieces)
  /\ tx_map = EmptyMap
  /\ tx_out = None /\ tx_again = None
  /\ tx_pc = "call"
  /\ AssetsIdle /\ WaybackIdle /\ RewriteIdle /\ MinifyIdle /\ RunIdle /\ MinRunIdle
  /\ ResolveIdle

\* minify_code(original, kind) in run_minification.
MinifyCode ==
  /\ tx_fn = "minify_code" /\ tx_pc = "call"
  /\ tx_out' = minify_code(tx_in, kind_of(tx_from))
  /\ tx_pc' = "done"
  /\ UNCHANGED <<tx_fn, tx_from, tx_in, tx_map, tx_again>>
  /\ UNCHANGED varsNotText

\* minify_code on the text the first call returned, as in a second run over
\* the site.
MinifyCodeAgain ==
  /\ tx_fn = "minify_code" /\ tx_pc = "done"
  /\ tx_again' = minify_code(tx_out, kind_of(tx_from))
  /\ tx_pc' = "again"
  /\ UNCHANGED <<tx_fn, tx_from, tx_in, tx_map, tx_out>>
  /\ UNCHANGED varsNotText

NextTwice == MinifyCode \/ MinifyCodeAgain

SpecTwice == InitTwice /\ [][NextTwice]_vars

\* C24: minify_code applied to its own output returns that output.
C24_MinifyIdempotent ==
  (tx_fn = "minify_code" /\ tx_pc = "again") => tx_again = tx_out

====
